---- MODULE Spec2Model ----
(***************************************************************************)
(* Click-Cartel Discord bot: the listing store (services/db.py), the       *)
(* ingestion pipeline (bot.py, services/scraper_manager.py,                *)
(* scrapers/base.py), the moderation / auto-rule publishing handlers       *)
(* (cogs/admin.py) and the saved-search alerting (cogs/saved_searches.py). *)
(*                                                                         *)
(* Text values are sequences of one-character strings, so that strip,      *)
(* lower-casing, substring search and the payout regular expression are    *)
(* computed character by character.  Python's None / SQL NULL text is the  *)
(* value None below; NULL integers are 0 (row ids start at 1).             *)
(***************************************************************************)
EXTENDS Integers, Sequences, FiniteSets, TLC

VARIABLES
    listings,      \* table listings: set of rows
    seq,           \* sqlite_sequence entry of listings (AUTOINCREMENT high-water mark)
    posts,         \* table posts: set of rows
    rejects,       \* table rejects: set of rows
    cards,         \* table moderation_cards: set of rows
    ret,           \* the last store call and what it returned
    everRejected,  \* history: the (site, link) pairs mark_review_rejected recorded
    pc,            \* per trigger: where its perform_scrape call stands
    fetched,       \* per trigger: what run_scrapers returned inside run_all
    got,           \* per trigger: what run_all returned to perform_scrape
    summary,       \* per trigger: the summary perform_scrape returned
    rules,         \* table auto_rules: set of rows
    ruleSeq,       \* sqlite_sequence entry of auto_rules
    verified,      \* PUBLIC_CHANNEL_ID / VERIFIED_CHANNEL_ID of the process (0: unset)
    session,       \* the SingleListingReviewer view of the last /post_listings
    views,         \* the ListingModerationView cards whose buttons are live
    announced,     \* AdminCog._announced_links
    published,     \* history: per listing id, the public channel sends made for it
    sends,         \* the last publishing handler and the public channel sends it made
    searches,      \* table saved_searches: set of rows
    searchSeq,     \* sqlite_sequence entry of saved_searches
    alerts,        \* the last on_listing_posted call and what it did
    data,          \* _match: the listing given
    params,        \* _match: the saved search given
    matched,       \* _match: whether it was called, and what it returned
    args,          \* the arguments of a function that is applied on its own
    applied,       \* whether that function was called, and what it returned
    emitted,       \* history: per listing id, the listing_posted events dispatched
                   \* and the moderation messages sent
    tasks,         \* per coroutine of AdminCog that runs across awaits: its locals
    bot,           \* ClickCartelBot: db, db.conn and how far the start is
    tick           \* AdminCog.autoscrape_loop: where its body stands, what it did

storeVars == <<listings, seq, posts, rejects, cards>>
histVars == <<ret, everRejected>>
pipeVars == <<pc, fetched, got, summary>>
ruleVars == <<rules, ruleSeq>>
flowVars == <<session, views, announced>>
pubVars == <<published, sends, emitted>>
alertVars == <<searches, searchSeq, alerts>>
matchVars == <<data, params, matched>>
procVars == <<tasks, bot, tick>>
callVars == <<args, applied, procVars>>
vars == <<storeVars, histVars, pipeVars, ruleVars, verified, flowVars, pubVars,
          alertVars, matchVars, callVars>>

\* what the actions of one part leave alone
notStore == <<pipeVars, ruleVars, verified, flowVars, pubVars, alertVars, matchVars, callVars>>
notPipe == <<cards, posts, rejects, everRejected, ruleVars, verified, flowVars, pubVars,
             alertVars, matchVars, callVars>>
restVars == <<ruleVars, verified, flowVars, pubVars, alertVars, matchVars, callVars>>
notPublish == <<seq, rejects, everRejected, ret, pipeVars, alertVars, matchVars, callVars>>

(***************************************************************************)
(* Bounds.                                                                 *)
(***************************************************************************)
MaxId == 3          \* listing ids handed out by AUTOINCREMENT in one run
MaxBatch == 2       \* longest batch given to upsert_listings
MaxRules == 2       \* rule ids handed out by AUTOINCREMENT in one run
MaxSearches == 2    \* saved-search ids handed out by AUTOINCREMENT in one run
MaxScrapers == 2    \* longest list of adapters given to run_scrapers

(***************************************************************************)
(* Text helpers.                                                           *)
(***************************************************************************)
None == <<"None">>

Str(v) == IF v = None THEN <<>> ELSE v          \* python: (v or "")

RECURSIVE LStrip(_)
LStrip(s) == IF s # <<>> /\ Head(s) = " " THEN LStrip(Tail(s)) ELSE s

RECURSIVE RStrip(_)
RStrip(s) == IF s # <<>> /\ s[Len(s)] = " " THEN RStrip(SubSeq(s, 1, Len(s) - 1)) ELSE s

Strip(s) == RStrip(LStrip(s))

UpperCase == <<"A", "B", "C", "D", "E", "F", "G", "H", "I", "J", "K", "L", "M",
               "N", "O", "P", "Q", "R", "S", "T", "U", "V", "W", "X", "Y", "Z">>
LowerCase == <<"a", "b", "c", "d", "e", "f", "g", "h", "i", "j", "k", "l", "m",
               "n", "o", "p", "q", "r", "s", "t", "u", "v", "w", "x", "y", "z">>

LowerChar(c) ==
    IF \E i \in DOMAIN UpperCase : UpperCase[i] = c
    THEN LowerCase[CHOOSE i \in DOMAIN UpperCase : UpperCase[i] = c]
    ELSE c

\* str.lower
Lower(s) == [i \in 1..Len(s) |-> LowerChar(s[i])]

\* python: sub in s
Contains(sub, s) ==
    \E i \in 0..(Len(s) - Len(sub)) : SubSeq(s, i + 1, i + Len(sub)) = sub

\* str.split(): the maximal runs of non-blank characters
RECURSIVE Split(_, _)
Split(s, word) ==
    IF s = <<>> THEN (IF word = <<>> THEN <<>> ELSE <<word>>)
    ELSE IF Head(s) = " "
         THEN (IF word = <<>> THEN <<>> ELSE <<word>>) \o Split(Tail(s), <<>>)
         ELSE Split(Tail(s), Append(word, Head(s)))

RemoteTerms ==
    { <<"r", "e", "m", "o", "t", "e">>, <<"v", "i", "r", "t", "u", "a", "l">>,
      <<"o", "n", "l", "i", "n", "e">>, <<"n", "a", "t", "i", "o", "n", "w", "i", "d", "e">>,
      <<"n", "a", "t", "i", "o", "n", "a", "l">> }

\* any(t in loc for t in ("remote", "virtual", "online", "nationwide", "national"))
AnyRemoteTerm(loc) == \E t \in RemoteTerms : Contains(t, loc)

(***************************************************************************)
(* _extract_amount_val: re.findall(r"\$?\s*([\d,]+)(?:\.\d{2})?", payout),  *)
(* the groups that int() accepts once their commas are removed, and the    *)
(* largest of them.  A missing amount (None) is NoAmount.                  *)
(***************************************************************************)
NoAmount == -1

Digits == <<"0", "1", "2", "3", "4", "5", "6", "7", "8", "9">>
IsDigit(c) == \E i \in DOMAIN Digits : Digits[i] = c
DigitVal(c) == (CHOOSE i \in DOMAIN Digits : Digits[i] = c) - 1
IsNumChar(c) == IsDigit(c) \/ c = ","

\* \s*: the first index from j on that does not hold a blank
RECURSIVE SkipSpaces(_, _)
SkipSpaces(s, j) == IF j <= Len(s) /\ s[j] = " " THEN SkipSpaces(s, j + 1) ELSE j

\* [\d,]+ is greedy: the last index of the run that starts at k
RECURSIVE RunEnd(_, _)
RunEnd(s, k) == IF k + 1 <= Len(s) /\ IsNumChar(s[k + 1]) THEN RunEnd(s, k + 1) ELSE k

\* the match of the pattern that starts at index i, if there is one
MatchAt(s, i) ==
    LET j == IF s[i] = "$" THEN i + 1 ELSE i
        k == SkipSpaces(s, j)
    IN  IF k <= Len(s) /\ IsNumChar(s[k])
        THEN LET e == RunEnd(s, k)
                 cents == /\ e + 3 <= Len(s)
                          /\ s[e + 1] = "."
                          /\ IsDigit(s[e + 2])
                          /\ IsDigit(s[e + 3])
             IN  [ok |-> TRUE, group |-> SubSeq(s, k, e),
                  next |-> IF cents THEN e + 4 ELSE e + 1]
        ELSE [ok |-> FALSE, group |-> <<>>, next |-> i + 1]

\* re.findall: the groups of the non-overlapping matches, left to right
RECURSIVE FindAll(_, _)
FindAll(s, i) ==
    IF i > Len(s) THEN <<>>
    ELSE LET m == MatchAt(s, i)
         IN  IF m.ok THEN <<m.group>> \o FindAll(s, m.next) ELSE FindAll(s, m.next)

RemoveCommas(g) == SelectSeq(g, LAMBDA c : c # ",")

\* int() of a string of decimal digits
RECURSIVE ParseInt(_, _)
ParseInt(ds, acc) ==
    IF ds = <<>> THEN acc ELSE ParseInt(Tail(ds), acc * 10 + DigitVal(Head(ds)))

Max(S) == CHOOSE x \in S : \A y \in S : y <= x

extract_amount_val(payout) ==
    IF payout = <<>> THEN NoAmount
    ELSE LET groups == FindAll(payout, 1)
             nums == { ParseInt(RemoveCommas(groups[i]), 0) :
                         i \in { n \in 1..Len(groups) : RemoveCommas(groups[n]) # <<>> } }
         IN  IF nums = {} THEN NoAmount ELSE Max(nums)

(***************************************************************************)
(* Scraped items.  A dict or object item is a record over Fields; a key or *)
(* attribute it does not have reads as None.                               *)
(***************************************************************************)
Fields == {"site", "title", "payout", "date_posted", "location", "method",
           "link", "description", "image_url"}

get_val(obj, key) == obj[key]

Item(site, link, payout, location) ==
    [site |-> site, title |-> <<"t">>, payout |-> payout, date_posted |-> None,
     location |-> location, method |-> None, link |-> link,
     description |-> None, image_url |-> None]

\* what iterating a str yields to _get_val: no attribute of that name
StrItem == [f \in Fields |-> None]

P50 == <<"$", "5", "0">>
P150 == <<"$", "1", "5", "0">>
NY == <<"n", "y">>

InputItems ==
    { Item(<<"a">>, <<"x">>, P50, NY),
      Item(<<" ", "a">>, <<"x", " ">>, P150, NY),
      Item(<<"a">>, <<"y">>, P50, None),
      StrItem }

Batches == UNION { [1..k -> InputItems] : k \in 0..MaxBatch }

Channels == {1, 2}
MsgIds == {7}

(***************************************************************************)
(* Table listings.                                                         *)
(***************************************************************************)
Row(id, site, link, it) ==
    [id |-> id, site |-> site, title |-> get_val(it, "title"),
     payout |-> get_val(it, "payout"), date_posted |-> get_val(it, "date_posted"),
     location |-> get_val(it, "location"), method |-> get_val(it, "method"),
     link |-> link, description |-> get_val(it, "description"),
     image_url |-> get_val(it, "image_url")]

\* SELECT id FROM listings WHERE site=? AND link=?
SelectBySiteLink(rows, site, link) == { r \in rows : r.site = site /\ r.link = link }

\* mutant: the UPDATE leaves the stored payout as it was
UpdateListingKeepsPayout(rows, site, link, it) ==
    { IF r.site = site /\ r.link = link
      THEN [Row(r.id, r.site, link, it) EXCEPT !.payout = r.payout]
      ELSE r : r \in rows }

\* mutant: the UPDATE gives the row a new id, as INSERT OR REPLACE would
UpdateListingRenumbers(rows, site, link, it) ==
    { IF r.site = site /\ r.link = link THEN Row(r.id + 10, r.site, link, it) ELSE r : r \in rows }

\* mutant: the UPDATE is cut short, the columns after date_posted keep their
\* stored values
UpdateListingTorn(rows, site, link, it) ==
    { IF r.site = site /\ r.link = link
      THEN [Row(r.id, r.site, link, it) EXCEPT !.location = r.location]
      ELSE r : r \in rows }

\* UPDATE listings SET ... WHERE site=? AND link=?
UpdateListing(rows, site, link, it) ==
    { IF r.site = site /\ r.link = link THEN Row(r.id, r.site, link, it) ELSE r : r \in rows }

\* INSERT INTO listings: AUTOINCREMENT id, UNIQUE(site, link)
InsertListing(rows, lastId, site, link, it) ==
    IF SelectBySiteLink(rows, site, link) # {}
    THEN [rows |-> rows, seq |-> lastId, raised |-> TRUE]
    ELSE [rows |-> rows \cup {Row(lastId + 1, site, link, it)},
          seq |-> lastId + 1, raised |-> FALSE]

\* mutant: new_count is incremented for updated rows too
RECURSIVE UpsertLoopCountsUpdates(_, _, _, _)
UpsertLoopCountsUpdates(rows, lastId, items, new) ==
    IF items = <<>>
    THEN [listings |-> rows, seq |-> lastId, new |-> new, raised |-> FALSE]
    ELSE LET it == Head(items)
             site == Strip(Str(get_val(it, "site")))
             link == Strip(Str(get_val(it, "link")))
         IN  IF site = <<>> \/ link = <<>>
             THEN UpsertLoopCountsUpdates(rows, lastId, Tail(items), new)
             ELSE IF SelectBySiteLink(rows, site, link) # {}
                  THEN UpsertLoopCountsUpdates(UpdateListing(rows, site, link, it),
                                               lastId, Tail(items), new + 1)
                  ELSE LET ins == InsertListing(rows, lastId, site, link, it)
                       IN  UpsertLoopCountsUpdates(ins.rows, ins.seq, Tail(items),
                                                   new + 1)

RECURSIVE UpsertLoop(_, _, _, _)
UpsertLoop(rows, lastId, items, new) ==
    IF items = <<>>
    THEN [listings |-> rows, seq |-> lastId, new |-> new, raised |-> FALSE]
    ELSE LET it == Head(items)
             site == Strip(Str(get_val(it, "site")))
             link == Strip(Str(get_val(it, "link")))
         IN  IF site = <<>> \/ link = <<>>
             THEN UpsertLoop(rows, lastId, Tail(items), new)
             ELSE IF SelectBySiteLink(rows, site, link) # {}
                  THEN UpsertLoop(UpdateListing(rows, site, link, it), lastId,
                                  Tail(items), new)
                  ELSE LET ins == InsertListing(rows, lastId, site, link, it)
                       IN  IF ins.raised
                           THEN [listings |-> rows, seq |-> lastId, new |-> new,
                                 raised |-> TRUE]
                           ELSE UpsertLoop(ins.rows, ins.seq, Tail(items), new + 1)

(***************************************************************************)
(* The pending query: listings LEFT JOIN posts LEFT JOIN rejects.          *)
(***************************************************************************)
\* LEFT JOIN posts p ON p.listing_id = l.id
PostMatches(l, ps) == { p \in ps : p.listing_id = l.id }

\* LEFT JOIN rejects r ON r.listing_id = l.id OR (r.site = l.site AND r.link = l.link)
RejectMatches(l, rs) ==
    { r \in rs : r.listing_id = l.id \/ (r.site = l.site /\ r.link = l.link) }

\* WHERE p.listing_id IS NULL AND r.id IS NULL: the listings that neither join
\* finds a row for
PendingRows(ls, ps, rs) ==
    { l \in ls : PostMatches(l, ps) = {} /\ RejectMatches(l, rs) = {} }

\* mutant: the count is taken over all listings
ListingCount(ls, ps, rs) == Cardinality(ls)

\* SELECT COUNT(*) ... WHERE p.listing_id IS NULL AND r.id IS NULL
PendingCount(ls, ps, rs) == Cardinality(PendingRows(ls, ps, rs))

\* mutant: ORDER BY l.id ASC
RECURSIVE OrderByIdAsc(_)
OrderByIdAsc(js) ==
    IF js = {} THEN <<>>
    ELSE LET low == CHOOSE j \in js : \A k \in js : j.id <= k.id
         IN  <<low>> \o OrderByIdAsc(js \ {low})

RECURSIVE OrderByIdDesc(_)
OrderByIdDesc(js) ==
    IF js = {} THEN <<>>
    ELSE LET top == CHOOSE j \in js : \A k \in js : k.id <= j.id
         IN  <<top>> \o OrderByIdDesc(js \ {top})

\* DB.get_pending_reviews: SELECT l.* ... ORDER BY l.id DESC
get_pending_reviews(ls, ps, rs) == OrderByIdDesc(PendingRows(ls, ps, rs))

Range(s) == { s[i] : i \in 1..Len(s) }

(***************************************************************************)
(* Store operations, as functions of the tables they read.                 *)
(***************************************************************************)
\* DB.upsert_listings: the loop, the commit and the pending count
upsert_result(ls, lastId, ps, rs, batch) ==
    LET res == UpsertLoop(ls, lastId, batch, 0)
    IN  [listings |-> res.listings, seq |-> res.seq, new |-> res.new,
         pending |-> PendingCount(res.listings, ps, rs), raised |-> res.raised]

\* mutant: INSERT without OR REPLACE and without the UNIQUE constraint
PostsAfterMarkAppends(ls, ps, listing_id, message_id, channel_id) ==
    [rows |-> ps \cup {[listing_id |-> listing_id, channel_id |-> channel_id,
                        message_id |-> message_id]},
     raised |-> FALSE]

\* mutant: marking a listing that has a post record removes the record
PostsAfterMarkToggles(ls, ps, listing_id, message_id, channel_id) ==
    IF \E p \in ps : p.listing_id = listing_id
    THEN [rows |-> { p \in ps : p.listing_id # listing_id }, raised |-> FALSE]
    ELSE [rows |-> ps \cup {[listing_id |-> listing_id, channel_id |-> channel_id,
                             message_id |-> message_id]},
          raised |-> FALSE]

\* DB.mark_review_posted: INSERT OR REPLACE INTO posts; posts.listing_id is
\* UNIQUE and a FOREIGN KEY into listings (PRAGMA foreign_keys=ON).  The rows
\* of posts after the statement, and whether it raised
PostsAfterMark(ls, ps, listing_id, message_id, channel_id) ==
    IF \E l \in ls : l.id = listing_id
    THEN [rows |-> { p \in ps : p.listing_id # listing_id }
                   \cup {[listing_id |-> listing_id, channel_id |-> channel_id,
                          message_id |-> message_id]},
          raised |-> FALSE]
    ELSE [rows |-> ps, raised |-> TRUE]

\* DB.mark_review_rejected: SELECT site, link; INSERT OR IGNORE INTO rejects,
\* UNIQUE(site, link)
RejectsAfterMark(ls, rs, listing_id) ==
    LET found == { l \in ls : l.id = listing_id }
    IN  IF found = {} THEN rs
        ELSE LET l == CHOOSE x \in found : TRUE
             IN  IF \E r \in rs : r.site = l.site /\ r.link = l.link
                 THEN rs
                 ELSE rs \cup {[listing_id |-> listing_id, site |-> l.site,
                                link |-> l.link]}

\* the (site, link) a call of mark_review_rejected records a reject for
RecordedReject(ls, listing_id) ==
    { <<l.site, l.link>> : l \in { x \in ls : x.id = listing_id } }

\* DB.mark_moderation_announced: INSERT OR REPLACE INTO moderation_cards;
\* listing_id is the PRIMARY KEY and a FOREIGN KEY into listings
CardsAfterAnnounce(ls, cs, listing_id, channel_id, message_id) ==
    IF \E l \in ls : l.id = listing_id
    THEN [rows |-> { c \in cs : c.listing_id # listing_id }
                   \cup {[listing_id |-> listing_id, channel_id |-> channel_id,
                          message_id |-> message_id]},
          raised |-> FALSE]
    ELSE [rows |-> cs, raised |-> TRUE]

\* DB.clear_moderation_card
CardsAfterClear(cs, listing_id) == { c \in cs : c.listing_id # listing_id }

(***************************************************************************)
(* The store driven through its interface (specification Spec).            *)
(***************************************************************************)
\* ret: the call, what it returned (new, pending), for a call repeated at
\* once what the first call returned (new1, pending1), the record of a
\* one-record batch (item) and how many stored payouts the call changed
Ret(op) == [op |-> op, new |-> 0, pending |-> 0, new1 |-> 0, pending1 |-> 0,
            item |-> StrItem, changed |-> 0, raised |-> FALSE]

PayoutsChanged(before, after) ==
    Cardinality({ r \in before : \E r2 \in after : r2.id = r.id /\ r2.payout # r.payout })

upsert_listings ==
    \E batch \in Batches :
    \E res \in {upsert_result(listings, seq, posts, rejects, batch)} :
        /\ res.seq <= MaxId
        /\ listings' = res.listings
        /\ seq' = res.seq
        /\ ret' = [Ret("upsert") EXCEPT
                      !.new = res.new,
                      !.pending = res.pending,
                      !.item = IF Len(batch) = 1 THEN batch[1] ELSE StrItem,
                      !.changed = PayoutsChanged(listings, res.listings),
                      !.raised = res.raised]
        /\ UNCHANGED <<posts, rejects, cards, everRejected, notStore>>

\* two calls of upsert_listings in a row with the same batch
upsert_listings_twice ==
    \E batch \in Batches :
    \E r1 \in {upsert_result(listings, seq, posts, rejects, batch)} :
    \E r2 \in {upsert_result(r1.listings, r1.seq, posts, rejects, batch)} :
        /\ r2.seq <= MaxId
        /\ listings' = r2.listings
        /\ seq' = r2.seq
        /\ ret' = [Ret("upsert2") EXCEPT
                      !.new = r2.new,
                      !.pending = r2.pending,
                      !.new1 = r1.new,
                      !.pending1 = r1.pending,
                      !.raised = r1.raised \/ r2.raised]
        /\ UNCHANGED <<posts, rejects, cards, everRejected, notStore>>

mark_review_posted ==
    \E listing_id \in 1..MaxId, message_id \in MsgIds, channel_id \in {1} :
    \E res \in {PostsAfterMark(listings, posts, listing_id, message_id, channel_id)} :
        /\ posts' = res.rows
        /\ ret' = [Ret("posted") EXCEPT !.raised = res.raised]
        /\ UNCHANGED <<listings, seq, rejects, cards, everRejected, notStore>>

mark_review_rejected ==
    \E listing_id \in 1..MaxId :
        /\ rejects' = RejectsAfterMark(listings, rejects, listing_id)
        /\ everRejected' = everRejected \cup RecordedReject(listings, listing_id)
        /\ ret' = Ret("rejected")
        /\ UNCHANGED <<listings, seq, posts, cards, notStore>>

mark_moderation_announced ==
    \E listing_id \in 1..MaxId, channel_id \in {2}, message_id \in MsgIds :
    \E res \in {CardsAfterAnnounce(listings, cards, listing_id, channel_id, message_id)} :
        /\ cards' = res.rows
        /\ ret' = [Ret("announced") EXCEPT !.raised = res.raised]
        /\ UNCHANGED <<listings, seq, posts, rejects, everRejected, notStore>>

clear_moderation_card ==
    \E listing_id \in 1..MaxId :
        /\ cards' = CardsAfterClear(cards, listing_id)
        /\ ret' = Ret("card_cleared")
        /\ UNCHANGED <<listings, seq, posts, rejects, everRejected, notStore>>

\* mutant: clear_listings without DELETE FROM rejects
ClearKeepsRejects ==
    /\ posts' = {}
    /\ cards' = {}
    /\ listings' = {}
    /\ ret' = Ret("clear")
    /\ UNCHANGED <<rejects, seq, everRejected>>

\* mutant: clear_listings also deletes the sqlite_sequence entry of listings
ClearTablesResetsSequence ==
    /\ posts' = {}
    /\ rejects' = {}
    /\ cards' = {}
    /\ listings' = {}
    /\ ret' = Ret("clear")
    /\ seq' = 0
    /\ UNCHANGED everRejected

\* DB.clear_listings: sqlite_sequence is not reset by DELETE
ClearTables ==
    /\ posts' = {}
    /\ rejects' = {}
    /\ cards' = {}
    /\ listings' = {}
    /\ ret' = Ret("clear")
    /\ UNCHANGED <<seq, everRejected>>

Triggers == {"manual", "rescrape", "auto"}

NoSummary == [total_found |-> -1, new |-> -1, queued |-> -1, n |-> 0, k |-> 0,
              stored |-> FALSE, pending |-> 0]

\* no reviewer session, no moderation card, nothing announced
NoSession == [open |-> FALSE, items |-> <<>>, index |-> 0, target_channel |-> 0]

NoSends == [op |-> "none", msgs |-> {}, failed |-> {}]

\* a listing as the handlers pass it on (_row_to_display)
Display(id, site, link, title, payout, location, method, description) ==
    [id |-> id, title |-> title, site |-> site, payout |-> payout,
     date_posted |-> <<>>, location |-> location, method |-> method, link |-> link,
     description |-> description, image_url |-> <<>>]

\* the filters of a saved search (save_search's params)
Search(q, min_amount, location, method, site, remote_only) ==
    [q |-> q, min_amount |-> min_amount, location |-> location, method |-> method,
     site |-> site, remote_only |-> remote_only]

NoListing == Display(0, <<>>, <<>>, <<>>, <<>>, <<>>, <<>>, <<>>)

Users == {1, 2}

\* no listing_posted event handled yet.  resolve and deliver say, per user,
\* what get_user / fetch_user and user.send did during the call
NoAlerts == [op |-> "none", listing |-> NoListing, tried |-> <<>>, sent |-> <<>>,
             raised |-> FALSE, resolve |-> [u \in Users |-> "found"],
             deliver |-> [u \in Users |-> "ok"]]

NotMatched == [called |-> FALSE, result |-> FALSE]

\* no function is applied on its own
NotCalled == [called |-> FALSE, value |-> <<>>]

\* the body of autoscrape_loop has not run yet
NoTick == [pc |-> "idle", scrape |-> "none", ran |-> {}, end |-> "none", posted |-> {}, carded |-> {}]

\* no coroutine of AdminCog is under way, and setup_hook has connected the
\* store
ProcIdle ==
    /\ tasks = [t \in {"sweep", "command", "tick"} |-> [rules |-> <<>>, items |-> <<>>]]
    /\ bot = [db |-> TRUE, conn |-> TRUE, connect |-> "ok", state |-> "running"]
    /\ tick = NoTick

NoCall == args = <<>> /\ applied = NotCalled /\ ProcIdle

MatchIdle ==
    /\ data = NoListing
    /\ params = Search(None, NoAmount, None, None, None, 0)
    /\ matched = NotMatched

\* everything but the process environment, the arguments of _match and the
\* tables auto_rules and saved_searches: the other tables are empty, no scrape
\* runs, no view is open
BaseInit ==
    /\ listings = {}
    /\ seq = 0
    /\ posts = {}
    /\ rejects = {}
    /\ cards = {}
    /\ ret = Ret("connect")
    /\ everRejected = {}
    /\ pc = [t \in Triggers |-> "idle"]
    /\ fetched = [t \in Triggers |-> <<>>]
    /\ got = [t \in Triggers |-> <<>>]
    /\ summary = [t \in Triggers |-> NoSummary]
    /\ session = NoSession
    /\ views = {}
    /\ announced = {}
    /\ published = [id \in 1..MaxId |-> 0]
    /\ emitted = [posted |-> [id \in 1..MaxId |-> 0],
                  moderation |-> [id \in 1..MaxId |-> 0]]
    /\ sends = NoSends
    /\ alerts = NoAlerts

\* a new database file: auto_rules and saved_searches are empty too
CoreInit ==
    /\ BaseInit
    /\ rules = {}
    /\ ruleSeq = 0
    /\ searches = {}
    /\ searchSeq = 0

\* the public channel is configured: PUBLIC_CHANNEL_ID = 1
Init == CoreInit /\ verified = 1 /\ MatchIdle /\ NoCall

clear_listings == ClearTables /\ UNCHANGED notStore

Next ==
    \/ upsert_listings
    \/ upsert_listings_twice
    \/ mark_review_posted
    \/ mark_review_rejected
    \/ clear_listings

Spec == Init /\ [][Next]_vars

(***************************************************************************)
(* Claims about the store.                                                 *)
(***************************************************************************)
Pending == Range(get_pending_reviews(listings, posts, rejects))

\* C1: once mark_review_rejected has recorded a reject for a (site, link), no
\* listing with that (site, link) is returned by get_pending_reviews() again,
\* also after clear_listings and a later upsert_listings of the same pair.
C1_RejectionPermanent ==
    \A k \in everRejected : ~ \E l \in Pending : <<l.site, l.link>> = k

\* C4: a call of upsert_listings repeated at once with the same batch returns
\* new count 0 and the pending count the first call returned.
C4_UpsertIdempotent ==
    ret.op = "upsert2" => (ret.new = 0 /\ ret.pending = ret.pending1)

\* a repeated call whose first call inserted a row beside a listing that is
\* not pending
C4_Witness ==
    /\ ret.op = "upsert2"
    /\ ret.new1 = 1
    /\ ret.pending1 = 1
    /\ Cardinality(listings) = 2

UniqueSiteLink ==
    \A r1, r2 \in listings : (r1.site = r2.site /\ r1.link = r2.link) => r1 = r2

\* a step of upsert_listings with the one-record batch <<ret'.item>>
UpdateInPlace ==
    (ret'.op = "upsert" /\ ret'.item # StrItem) =>
        LET it == ret'.item
            site == Strip(Str(it.site))
            link == Strip(Str(it.link))
        IN  \A r \in listings :
                (r.site = site /\ r.link = link /\ r.payout # it.payout) =>
                    /\ Cardinality(listings') = Cardinality(listings)
                    /\ \E r2 \in listings' :
                          /\ r2.id = r.id
                          /\ r2.site = r.site
                          /\ r2.link = r.link
                          /\ r2.payout = it.payout

\* C5: no two rows of listings share (site, link), and upsert_listings of a
\* record whose (site, link) is stored with another payout keeps the number of
\* rows and the row's id and stores the new payout.
C5_UniqueAndUpdatedInPlace == []UniqueSiteLink /\ [][UpdateInPlace]_vars

\* a one-record upsert has just replaced the payout of the stored row 1
C5_Witness ==
    /\ ret.op = "upsert"
    /\ ret.item # StrItem
    /\ ret.new = 0
    /\ ret.changed = 1
    /\ \E r \in listings : r.id = 1 /\ r.payout = ret.item.payout

\* the listings with no post record and no reject record for their id or
\* their (site, link)
Unsettled ==
    { l \in listings :
        /\ ~ \E p \in posts : p.listing_id = l.id
        /\ ~ \E r \in rejects : r.listing_id = l.id \/ (r.site = l.site /\ r.link = l.link) }

\* C18: get_pending_reviews() returns exactly the listings with no post record
\* and no reject record for their id or (site, link), each once, highest id
\* first.
C18_PendingQuery ==
    LET rows == get_pending_reviews(listings, posts, rejects)
    IN  /\ Range(rows) = Unsettled
        /\ \A i, j \in 1..Len(rows) : i < j => rows[i].id > rows[j].id

\* two listings are stored, one has a reject record, and the query returns
\* the other one only
C18_Witness ==
    /\ Cardinality(listings) = 2
    /\ \E l \in listings : RejectMatches(l, rejects) # {} /\ PostMatches(l, posts) = {}
    /\ Len(get_pending_reviews(listings, posts, rejects)) = 1

\* C19: the pending count upsert_listings returns is the number of rows
\* get_pending_reviews() returns in the state the call leaves, and the number
\* of listings with no post record and no matching reject record.
C19_PendingCountAgrees ==
    ret.op \in {"upsert", "upsert2"} =>
        /\ ret.pending = Len(get_pending_reviews(listings, posts, rejects))
        /\ ret.pending = Cardinality(Unsettled)

\* upsert_listings returned 1 with two listings stored, one of them posted
C19_Witness ==
    /\ ret.op = "upsert"
    /\ ret.pending = 1
    /\ Cardinality(listings) = 2
    /\ \E l \in listings : PostMatches(l, posts) # {}

(***************************************************************************)
(* The store without clear_listings (specification SpecNoClear).           *)
(***************************************************************************)
NextNoClear ==
    \/ upsert_listings
    \/ mark_review_posted
    \/ mark_review_rejected
    \/ mark_moderation_announced
    \/ clear_moderation_card

SpecNoClear == Init /\ [][NextNoClear]_vars

\* C14: without clear_listings, a listing that has a post record or a matching
\* reject record is not returned by get_pending_reviews() after any further
\* call of the store.
C14_SettledStays ==
    [][\A l \in listings :
          (PostMatches(l, posts) # {} \/ RejectMatches(l, rejects) # {}) =>
              ~ \E x \in Range(get_pending_reviews(listings', posts', rejects')) :
                    x.id = l.id]_vars

\* upsert_listings has just updated the payout of a listing that has a post
\* record, and the listing is not pending
C14_Witness ==
    /\ ret.op = "upsert"
    /\ ret.changed = 1
    /\ \E l \in listings :
          /\ l.site = Strip(Str(ret.item.site))
          /\ l.link = Strip(Str(ret.item.link))
          /\ PostMatches(l, posts) # {}
          /\ l \notin Pending

(***************************************************************************)
(* The ingestion pipeline (specification SpecPipe): ClickCartelBot.        *)
(* perform_scrape called by /scrape, /rescrape and the autoscrape tick,    *)
(* one step per await.                                                     *)
(***************************************************************************)
\* ScraperManager.scrapers
Scrapers == <<"FocusGroupsScraper">>

\* what one adapter's scrape() gives asyncio.gather(return_exceptions=True)
Scraped(items) == [raised |-> FALSE, items |-> items]
ScrapeFailed == [raised |-> TRUE, items |-> <<>>]

AdapterOutcomes ==
    { ScrapeFailed,
      Scraped(<<>>),
      Scraped(<<Item(<<"a">>, <<"x">>, P50, NY)>>),
      Scraped(<<Item(<<"a">>, <<"x">>, P50, NY), Item(<<"a">>, <<"y">>, P50, None)>>) }

\* mutant: the first adapter that raises ends the collection
RECURSIVE run_scrapers_stops(_)
run_scrapers_stops(scraped) ==
    IF scraped = <<>> THEN <<>>
    ELSE IF Head(scraped).raised THEN <<>>
         ELSE Head(scraped).items \o run_scrapers_stops(Tail(scraped))

\* run_scrapers: the lists of the adapters that did not raise, concatenated
RECURSIVE run_scrapers(_)
run_scrapers(scraped) ==
    IF scraped = <<>> THEN <<>>
    ELSE IF Head(scraped).raised THEN run_scrapers(Tail(scraped))
         ELSE Head(scraped).items \o run_scrapers(Tail(scraped))

\* the dict {"new": 0, "total": 0}, as perform_scrape uses it: len() counts
\* its keys and iterating it yields the keys, which are str
RunAllDictKeys == <<"new", "total">>
IterKeys(keys) == [i \in 1..Len(keys) |-> StrItem]

\* ScraperManager.run_all: results is computed and dropped
run_all(scraped) ==
    [results |-> run_scrapers(scraped), returned |-> IterKeys(RunAllDictKeys)]

Key(it) == <<Strip(Str(get_val(it, "site"))), Strip(Str(get_val(it, "link")))>>

\* the summary perform_scrape returned, with what the run was given: n
\* listings from the adapters, k of them not stored before the upsert, and
\* whether all of them are stored and pending after it
Summary(total_found, new, queued, results, before, after, ps, rs) ==
    [total_found |-> total_found, new |-> new, queued |-> queued,
     n |-> Len(results),
     k |-> Cardinality({ Key(results[i]) : i \in 1..Len(results) }
                       \ { <<l.site, l.link>> : l \in before }),
     stored |-> \A i \in 1..Len(results) :
                    \E l \in Range(get_pending_reviews(after, ps, rs)) :
                        <<l.site, l.link>> = Key(results[i]),
     pending |-> Len(get_pending_reviews(after, ps, rs))]

\* /scrape, /rescrape (after its clear_listings) or the tick enters
\* perform_scrape and awaits run_all
StartScrape(t) ==
    /\ pc[t] = "idle"
    /\ pc' = [pc EXCEPT ![t] = "run_all"]
    /\ fetched' = [fetched EXCEPT ![t] = <<>>]
    /\ got' = [got EXCEPT ![t] = <<>>]
    /\ summary' = [summary EXCEPT ![t] = NoSummary]
    /\ IF t = "rescrape"
       THEN ClearTables
       ELSE UNCHANGED <<storeVars, histVars>>
    /\ UNCHANGED restVars

\* run_all returns; perform_scrape awaits upsert_listings
RunAllReturns(t) ==
    /\ pc[t] = "run_all"
    /\ \E scraped \in [1..Len(Scrapers) -> AdapterOutcomes] :
         \E r \in {run_all(scraped)} :
            /\ fetched' = [fetched EXCEPT ![t] = r.results]
            /\ got' = [got EXCEPT ![t] = r.returned]
    /\ pc' = [pc EXCEPT ![t] = "upsert"]
    /\ UNCHANGED <<summary, storeVars, histVars, restVars>>

\* upsert_listings returns; perform_scrape returns its summary
UpsertReturns(t) ==
    /\ pc[t] = "upsert"
    /\ \E res \in {upsert_result(listings, seq, posts, rejects, got[t])} :
         /\ res.seq <= MaxId
         /\ listings' = res.listings
         /\ seq' = res.seq
         /\ summary' = [summary EXCEPT ![t] =
                Summary(Len(got[t]), res.new, res.pending, fetched[t],
                        listings, res.listings, posts, rejects)]
    /\ pc' = [pc EXCEPT ![t] = "idle"]
    /\ UNCHANGED <<fetched, got, notPipe, ret>>

NextPipe == \E t \in Triggers : StartScrape(t) \/ RunAllReturns(t) \/ UpsertReturns(t)

SpecPipe == Init /\ [][NextPipe]_vars

\* C2: at no time are two perform_scrape runs in flight together.
C2_NoOverlap == Cardinality({ t \in Triggers : pc[t] # "idle" }) <= 1

DistinctKeys(results) ==
    /\ \A i \in 1..Len(results) : Key(results[i])[1] # <<>> /\ Key(results[i])[2] # <<>>
    /\ \A i, j \in 1..Len(results) : Key(results[i]) = Key(results[j]) => i = j

\* C6: a run whose adapters return n listings with distinct non-empty
\* (site, link), k of them not yet stored, returns total_found = n and new = k,
\* stores the k listings as pending, and queued is the pending count after it.
C6_SummaryCounts ==
    \A t \in Triggers :
        (summary[t] # NoSummary /\ DistinctKeys(fetched[t])) =>
            /\ summary[t].total_found = summary[t].n
            /\ summary[t].new = summary[t].k
            /\ summary[t].stored
            /\ summary[t].queued = summary[t].pending

\* C13: a trigger that arrives while another run is in flight is skipped: its
\* perform_scrape is not entered, so it fetches nothing and upserts nothing.
C13_OverlapSkipped ==
    [][\A t \in Triggers :
          (pc[t] = "idle" /\ \E u \in Triggers \ {t} : pc[u] # "idle") => pc'[t] = "idle"]_vars

(***************************************************************************)
(* run_scrapers on its own (specification SpecCollect): a list of adapters *)
(* is given, each with what its scrape() does, and run_scrapers is called. *)
(***************************************************************************)
\* what the adapters of one run give: as AdapterOutcomes, and a second record
\* for (a, x) with another payout
CollectOutcomes ==
    AdapterOutcomes
    \cup { Scraped(<<Item(<<"a">>, <<"x">>, P150, NY)>>),
           Scraped(<<Item(<<"b">>, <<"z">>, None, None)>>),
           Scraped(<<Item(<<"a">>, <<"y">>, P50, None), Item(<<"a">>, <<"y">>, P150, None)>>) }

InitCollect ==
    /\ CoreInit
    /\ verified = 1
    /\ MatchIdle
    /\ args \in UNION { [1..n -> CollectOutcomes] : n \in 0..MaxScrapers }
    /\ applied = NotCalled
    /\ ProcIdle

\* results = await run_scrapers(self.scrapers)
Collect ==
    /\ ~ applied.called
    /\ applied' = [called |-> TRUE, value |-> run_scrapers(args)]
    /\ UNCHANGED <<storeVars, histVars, pipeVars, ruleVars, verified, flowVars, pubVars, alertVars, matchVars, args, procVars>>

SpecCollect == InitCollect /\ [][Collect]_vars

\* C11: whatever adapters fail, run_scrapers returns (it does not raise) and
\* its result holds every listing that the adapters which succeeded returned.
C11_FailureExcluded ==
    applied.called =>
        \A i \in 1..Len(args) :
            ~ args[i].raised =>
                \A j \in 1..Len(args[i].items) :
                    \E k \in 1..Len(applied.value) : applied.value[k] = args[i].items[j]

\* one adapter failed, another returned listings, and they are in the result
C11_Witness ==
    /\ applied.called
    /\ \E i \in 1..Len(args) : args[i].raised
    /\ \E i \in 1..Len(args) : ~ args[i].raised /\ Len(args[i].items) = 2
    /\ Len(applied.value) >= 2

\* the records the adapters returned, in the order of the adapters
RECURSIVE Returned(_)
Returned(outcomes) ==
    IF outcomes = <<>> THEN <<>> ELSE Head(outcomes).items \o Returned(Tail(outcomes))

\* C12: the result of run_scrapers holds at most one listing per (site, link),
\* and for every (site, link) the adapters returned it holds the first record
\* they returned for it.
C12_FirstPerKey ==
    applied.called =>
        /\ \A i, j \in 1..Len(applied.value) :
              Key(applied.value[i]) = Key(applied.value[j]) => i = j
        /\ LET all == Returned(args)
           IN  \A i \in 1..Len(all) :
                   (\A j \in 1..(i - 1) : Key(all[j]) # Key(all[i])) =>
                       \E k \in 1..Len(applied.value) : applied.value[k] = all[i]

(***************************************************************************)
(* Auto rules (services/db.py, cogs/rules.py) and the rule sweep           *)
(* AdminCog._auto_post_rules.                                              *)
(***************************************************************************)
\* the options of /rules_add: A asks for $100 and posts to channel 1, B asks
\* for a remote listing and posts to channel 2, C asks for a site and posts to
\* the public channel
RuleInputs ==
    { [name |-> "A", min_amount |-> 100, require_remote |-> FALSE, site_contains |-> None,
       method_contains |-> None, location_contains |-> None, channel_id |-> 1],
      [name |-> "B", min_amount |-> NoAmount, require_remote |-> TRUE, site_contains |-> None,
       method_contains |-> None, location_contains |-> None, channel_id |-> 2],
      [name |-> "C", min_amount |-> NoAmount, require_remote |-> FALSE, site_contains |-> <<"A">>,
       method_contains |-> None, location_contains |-> None, channel_id |-> 0] }

\* INSERT INTO auto_rules (..., enabled) VALUES (..., 1)
RuleRow(id, name, p) ==
    [id |-> id, name |-> name, min_amount |-> p.min_amount,
     require_remote |-> IF p.require_remote THEN 1 ELSE 0,
     site_contains |-> p.site_contains, method_contains |-> p.method_contains,
     location_contains |-> p.location_contains, channel_id |-> p.channel_id,
     enabled |-> 1]

\* /rules_add, /rules_toggle, /rules_delete: the handler and its DB call
add_rule ==
    /\ ruleSeq < MaxRules
    /\ \E p \in RuleInputs :
         rules' = rules \cup {RuleRow(ruleSeq + 1, p.name, p)}
    /\ ruleSeq' = ruleSeq + 1
    /\ sends' = NoSends
    /\ UNCHANGED <<storeVars, histVars, pipeVars, verified, flowVars, published, emitted, alertVars, matchVars, callVars>>

toggle_rule ==
    /\ \E rule_id \in 1..MaxRules, enabled \in BOOLEAN :
         rules' = { IF r.id = rule_id
                    THEN [r EXCEPT !.enabled = IF enabled THEN 1 ELSE 0]
                    ELSE r : r \in rules }
    /\ sends' = NoSends
    /\ UNCHANGED <<ruleSeq, storeVars, histVars, pipeVars, verified, flowVars, published, emitted, alertVars, matchVars, callVars>>

delete_rule ==
    /\ \E rule_id \in 1..MaxRules :
         rules' = { r \in rules : r.id # rule_id }
    /\ sends' = NoSends
    /\ UNCHANGED <<ruleSeq, storeVars, histVars, pipeVars, verified, flowVars, published, emitted, alertVars, matchVars, callVars>>

RECURSIVE OrderRulesDesc(_)
OrderRulesDesc(rs) ==
    IF rs = {} THEN <<>>
    ELSE LET top == CHOOSE r \in rs : \A q \in rs : q.id <= r.id
         IN  <<top>> \o OrderRulesDesc(rs \ {top})

\* mutant: the rules come back highest id first
list_rules_desc(rt, enabled_only) ==
    OrderRulesDesc({ r \in rt : enabled_only => r.enabled = 1 })

RECURSIVE OrderRulesAsc(_)
OrderRulesAsc(rs) ==
    IF rs = {} THEN <<>>
    ELSE LET low == CHOOSE r \in rs : \A q \in rs : r.id <= q.id
         IN  <<low>> \o OrderRulesAsc(rs \ {low})

\* DB.list_rules: SELECT * FROM auto_rules [WHERE enabled=1] ORDER BY id ASC
list_rules(rt, enabled_only) ==
    OrderRulesAsc({ r \in rt : enabled_only => r.enabled = 1 })

Untitled == <<"(", "u", "n", "t", "i", "t", "l", "e", "d", ")">>

\* _row_to_display
row_to_display(row) ==
    [id |-> row.id,
     title |-> IF Str(row.title) = <<>> THEN Untitled ELSE row.title,
     site |-> Str(row.site), payout |-> Str(row.payout),
     date_posted |-> Str(row.date_posted), location |-> Str(row.location),
     method |-> Str(row.method), link |-> Str(row.link),
     description |-> Str(row.description), image_url |-> Str(row.image_url)]

\* the local function contains(field, val) of _auto_post_rules
contains(field, val) ==
    IF Str(val) = <<>> THEN TRUE ELSE Contains(Lower(val), Lower(Str(field)))

\* mutant: the min_amount test is left out
RuleIgnoresMinAmount(d, it, amt) ==
    /\ (d.require_remote # 0 => AnyRemoteTerm(Lower(Str(it.location))))
    /\ contains(it.site, d.site_contains)
    /\ contains(it.method, d.method_contains)
    /\ contains(it.location, d.location_contains)

\* mutant: every rule passes
RuleAlwaysPasses(d, it, amt) == TRUE

\* none of the "continue" tests of the rule loop fires for rule d
RulePasses(d, it, amt) ==
    /\ ~ (d.min_amount # NoAmount /\ (amt = NoAmount \/ amt < d.min_amount))
    /\ (d.require_remote # 0 => AnyRemoteTerm(Lower(Str(it.location))))
    /\ contains(it.site, d.site_contains)
    /\ contains(it.method, d.method_contains)
    /\ contains(it.location, d.location_contains)

\* what bot.get_channel(id) gives and what its send() does
ChannelEnvs == [Channels -> {"text", "missing", "failing"}]

NotSent == [sent |-> FALSE, raised |-> FALSE, channel_id |-> 0, rule_id |-> 0]

\* mutant: a rule whose channel cannot be resolved is passed over (continue)
RECURSIVE RuleLoopContinues(_, _, _, _, _)
RuleLoopContinues(rs, it, amt, default_cid, chan) ==
    IF rs = <<>> THEN NotSent
    ELSE LET d == Head(rs)
         IN  IF ~ RulePasses(d, it, amt)
             THEN RuleLoopContinues(Tail(rs), it, amt, default_cid, chan)
             ELSE LET chan_id == IF d.channel_id # 0 THEN d.channel_id ELSE default_cid
                  IN  IF chan_id = 0 \/ chan[chan_id] = "missing"
                      THEN RuleLoopContinues(Tail(rs), it, amt, default_cid, chan)
                      ELSE [sent |-> chan[chan_id] = "text",
                            raised |-> chan[chan_id] = "failing",
                            channel_id |-> chan_id, rule_id |-> d.id]

\* for rule in rules: ... of _auto_post_rules, for one listing
RECURSIVE RuleLoop(_, _, _, _, _)
RuleLoop(rs, it, amt, default_cid, chan) ==
    IF rs = <<>> THEN NotSent
    ELSE LET d == Head(rs)
         IN  IF ~ RulePasses(d, it, amt)
             THEN RuleLoop(Tail(rs), it, amt, default_cid, chan)
             ELSE LET chan_id == IF d.channel_id # 0 THEN d.channel_id ELSE default_cid
                  IN  IF chan_id = 0 THEN NotSent
                      ELSE IF chan[chan_id] = "missing" THEN NotSent
                      ELSE [sent |-> chan[chan_id] = "text",
                            raised |-> chan[chan_id] = "failing",
                            channel_id |-> chan_id, rule_id |-> d.id]

Msg(listing_id, channel_id, rule_id) ==
    [listing_id |-> listing_id, channel_id |-> channel_id, rule_id |-> rule_id]

\* what a sweep has done so far: the posts table, the sends made, those
\* followed by a listing_posted event, and the listings whose send raised
SweepAcc(ps) == [posts |-> ps, msgs |-> {}, events |-> {}, failed |-> {}]

\* mutant: the post record is written although the send raised
SweepRowMarksFailed(row, rs, default_cid, chan, message_id, ls, acc) ==
    LET it == row_to_display(row)
        amt == extract_amount_val(it.payout)
        out == RuleLoop(rs, it, amt, default_cid, chan)
        mark == PostsAfterMark(ls, acc.posts, it.id, message_id, out.channel_id)
    IN  IF out.sent
        THEN [acc EXCEPT !.posts = mark.rows,
                         !.msgs = @ \cup {Msg(it.id, out.channel_id, out.rule_id)},
                         !.events = @ \cup {Msg(it.id, out.channel_id, out.rule_id)}]
        ELSE IF out.raised
             THEN [acc EXCEPT !.posts = mark.rows, !.failed = @ \cup {it.id}]
             ELSE acc

\* the body of for r in rows: ... of _auto_post_rules for one row: the send,
\* mark_review_posted, and dispatch("listing_posted") unless either raised
SweepRow(row, rs, default_cid, chan, message_id, ls, acc) ==
    LET it == row_to_display(row)
        amt == extract_amount_val(it.payout)
        out == RuleLoop(rs, it, amt, default_cid, chan)
        mark == PostsAfterMark(ls, acc.posts, it.id, message_id, out.channel_id)
        msg == Msg(it.id, out.channel_id, out.rule_id)
    IN  IF out.sent
        THEN [acc EXCEPT !.posts = mark.rows,
                         !.msgs = @ \cup {msg},
                         !.events = IF mark.raised THEN @ ELSE @ \cup {msg}]
        ELSE IF out.raised THEN [acc EXCEPT !.failed = @ \cup {it.id}]
             ELSE acc

\* for r in rows: ... of _auto_post_rules
RECURSIVE SweepRows(_, _, _, _, _, _, _)
SweepRows(rows, rs, default_cid, chan, message_id, ls, acc) ==
    IF rows = <<>> THEN acc
    ELSE SweepRows(Tail(rows), rs, default_cid, chan, message_id, ls,
                   SweepRow(Head(rows), rs, default_cid, chan, message_id, ls, acc))

sweep_result(rt, ls, ps, rjs, default_cid, chan, message_id) ==
    LET rs == list_rules(rt, TRUE)
    IN  IF rs = <<>> THEN SweepAcc(ps)
        ELSE SweepRows(get_pending_reviews(ls, ps, rjs), rs, default_cid, chan,
                       message_id, ls, SweepAcc(ps))

\* the publishes per listing id after the sends msgs
Publish(count, msgs) ==
    [id \in DOMAIN count |-> count[id] + Cardinality({ m \in msgs : m.listing_id = id })]

auto_post_rules ==
    \E chan \in ChannelEnvs, message_id \in MsgIds :
    \E res \in {sweep_result(rules, listings, posts, rejects, verified, chan, message_id)} :
        /\ posts' = res.posts
        /\ sends' = [op |-> "sweep", msgs |-> res.msgs, failed |-> res.failed]
        /\ published' = Publish(published, res.msgs)
        /\ emitted' = [emitted EXCEPT !.posted = Publish(@, res.events)]
        /\ UNCHANGED <<listings, cards, ruleVars, verified, flowVars, notPublish>>

(***************************************************************************)
(* Rules and sweeps (specification SpecRules).                             *)
(***************************************************************************)
RemoteLoc == <<"R", "e", "m", "o", "t", "e">>

PublishItems ==
    { Item(<<"a">>, <<"x">>, P150, RemoteLoc),
      Item(<<"a">>, <<"y">>, None, NY) }

\* the public channel is configured (PUBLIC_CHANNEL_ID = 1) or not (0)
InitPublish == CoreInit /\ verified \in {0, 1} /\ MatchIdle /\ NoCall

\* a scrape stores one listing; no public send
Ingest ==
    /\ \E it \in PublishItems :
         \E res \in {upsert_result(listings, seq, posts, rejects, <<it>>)} :
            /\ res.seq <= MaxId
            /\ listings' = res.listings
            /\ seq' = res.seq
    /\ sends' = NoSends
    /\ UNCHANGED <<posts, rejects, cards, histVars, pipeVars, ruleVars, verified,
                   flowVars, published, emitted, alertVars, matchVars, callVars>>

NextRules == Ingest \/ add_rule \/ toggle_rule \/ delete_rule \/ auto_post_rules

SpecRules == InitPublish /\ [][NextRules]_vars

\* the enabled rules of the table whose filters all pass for the listing row l
PassingRules(rt, l) ==
    { r \in rt : /\ r.enabled = 1
                 /\ RulePasses(r, row_to_display(l),
                               extract_amount_val(row_to_display(l).payout)) }

\* the destination of a rule: its channel, or the public channel
Destination(r, default_cid) == IF r.channel_id # 0 THEN r.channel_id ELSE default_cid

\* a sweep step sends each listing to the destination of its lowest passing rule
SweepUsesFirstMatch ==
    sends'.op = "sweep" =>
        \A m \in sends'.msgs :
            \E l \in Pending :
                /\ l.id = m.listing_id
                /\ PassingRules(rules, l) # {}
                /\ LET first == CHOOSE r \in PassingRules(rules, l) :
                                    \A q \in PassingRules(rules, l) : r.id <= q.id
                   IN  m.channel_id = Destination(first, verified)

\* C7: in a rule sweep every listing that is sent goes to the destination of
\* the enabled rule with the lowest id among the rules whose filters all pass,
\* never to that of a later passing rule.
C7_FirstMatchWins == [][SweepUsesFirstMatch]_vars

\* rules [A: min_amount=100 -> 1, B: require_remote -> 2], both passing for the
\* listing with payout $150 and location Remote, which the sweep sent to 1
C7_Witness ==
    /\ sends.op = "sweep"
    /\ \E a, b \in rules :
          /\ a.id = 1 /\ a.enabled = 1 /\ a.min_amount = 100 /\ a.channel_id = 1
          /\ b.id = 2 /\ b.enabled = 1 /\ b.require_remote = 1 /\ b.channel_id = 2
    /\ \E l \in listings :
          /\ l.payout = P150
          /\ l.location = RemoteLoc
          /\ Msg(l.id, 1, 1) \in sends.msgs

(***************************************************************************)
(* The filters of one rule on one pending row (specification SpecFilter):  *)
(* the body of the rule loop of _auto_post_rules up to its last continue.  *)
(***************************************************************************)
FilterRules ==
    { RuleRow(1, "r", [min_amount |-> min_amount, require_remote |-> require_remote,
                       site_contains |-> site_contains,
                       method_contains |-> method_contains,
                       location_contains |-> location_contains, channel_id |-> 1]) :
        min_amount \in {NoAmount, 0, 100},
        require_remote \in BOOLEAN,
        site_contains \in {None, <<"A">>},
        method_contains \in {None, <<"O", "n">>},
        location_contains \in {None, <<"y", "o", "r", "k">>} }

FilterRows ==
    { Row(1, <<"a">>, <<"x">>,
          [Item(<<"a">>, <<"x">>,
                <<"$", "5", "0", " ", "-", " ", "$", "1", ",", "0", "0", "0", ".", "5", "0">>,
                RemoteLoc) EXCEPT !.method = <<"O", "n", "l", "i", "n", "e">>]),
      Row(2, <<"b">>, <<"y">>,
          Item(<<"b">>, <<"y">>, None, <<"N", "e", "w", " ", "Y", "o", "r", "k">>)),
      Row(3, <<"a", "b">>, <<"z">>, Item(<<"a", "b">>, <<"z">>, <<"T", "B", "D">>, None)),
      Row(4, <<"b">>, <<"w">>,
          Item(<<"b">>, <<"w">>, <<"$", "2", "5">>,
               <<"n", "a", "t", "i", "o", "n", "w", "i", "d", "e">>)),
      Row(5, <<"a">>, <<"v">>, Item(<<"a">>, <<"v">>, <<>>, <<"Y", "o", "r", "k">>)) }

InitFilter ==
    /\ CoreInit
    /\ verified = 1
    /\ MatchIdle
    /\ args \in [rule : FilterRules, row : FilterRows]
    /\ applied = NotCalled
    /\ ProcIdle

\* it = _row_to_display(r); amt = _extract_amount_val(it.get("payout") or "");
\* the tests of one rule
Filter ==
    /\ ~ applied.called
    /\ LET it == row_to_display(args.row)
           amt == extract_amount_val(Str(it.payout))
       IN  applied' = [called |-> TRUE, value |-> RulePasses(args.rule, it, amt)]
    /\ UNCHANGED <<storeVars, histVars, pipeVars, ruleVars, verified, flowVars, pubVars, alertVars, matchVars, args, procVars>>

SpecFilter == InitFilter /\ [][Filter]_vars

\* a text filter that is set asks for its value inside the field, whatever the case
TextFilterHolds(val, field) ==
    Str(val) # <<>> => Contains(Lower(val), Lower(Str(field)))

\* every filter of rule r that is set passes for the listing row l
RuleMatches(r, l) ==
    /\ r.min_amount # NoAmount =>
          /\ extract_amount_val(Str(l.payout)) # NoAmount
          /\ extract_amount_val(Str(l.payout)) >= r.min_amount
    /\ r.require_remote = 1 => AnyRemoteTerm(Lower(Str(l.location)))
    /\ TextFilterHolds(r.site_contains, l.site)
    /\ TextFilterHolds(r.method_contains, l.method)
    /\ TextFilterHolds(r.location_contains, l.location)

\* C16: the rule loop passes a rule for a listing exactly when every filter of
\* the rule that is set passes; a rule with min_amount set passes for no
\* listing whose payout is empty or holds no number, and otherwise min_amount
\* is compared with the largest number of the payout text ($50 - $1,000.50
\* passes min_amount 100).
C16_RuleIsConjunction ==
    applied.called =>
        /\ applied.value <=> RuleMatches(args.rule, args.row)
        /\ (args.rule.min_amount # NoAmount /\ args.row.id \in {2, 3, 5}) => ~ applied.value
        /\ ( /\ args.row.id = 1
             /\ args.rule = RuleRow(1, "r", [min_amount |-> 100, require_remote |-> FALSE,
                                              site_contains |-> None,
                                              method_contains |-> None,
                                              location_contains |-> None,
                                              channel_id |-> 1]) ) => applied.value

\* the rule asks for 100 and for "york"; the payout $50 - $1,000.50 passes the
\* first, the location Remote fails the second, and the rule does not pass
C16_Witness ==
    /\ applied.called
    /\ args.row.id = 1
    /\ args.rule.min_amount = 100
    /\ args.rule.location_contains = <<"y", "o", "r", "k">>
    /\ extract_amount_val(args.row.payout) = 1000
    /\ ~ applied.value

\* the pending listings that no enabled rule matches
Unmatched == { l \in Pending : ~ \E r \in rules : r.enabled = 1 /\ RuleMatches(r, l) }

\* a sweep step sends, records and publishes nothing for an unmatched listing
SweepLeavesUnmatched ==
    sends'.op = "sweep" =>
        \A l \in Unmatched :
            /\ ~ \E m \in sends'.msgs : m.listing_id = l.id
            /\ ~ \E p \in posts' : p.listing_id = l.id
            /\ published'[l.id] = published[l.id]
            /\ l \in Range(get_pending_reviews(listings', posts', rejects'))

NextRepost ==
    \/ Ingest
    \/ add_rule
    \/ auto_post_rules
    \/ mark_review_posted
    \/ clear_listings

SpecRepost == Init /\ [][NextRepost]_vars

PostsOf(ps, id) == { p \in ps : p.listing_id = id }

\* a call of mark_review_posted leaves every posted listing with one record
\* and changes the record of at most one listing
MarkKeepsOnePost ==
    mark_review_posted =>
        /\ \A id \in 1..MaxId :
              PostsOf(posts, id) # {} => Cardinality(PostsOf(posts', id)) = 1
        /\ Cardinality({ id \in 1..MaxId : PostsOf(posts', id) # PostsOf(posts, id) }) <= 1

\* C15: the posts table never holds two records for one listing, and
\* mark_review_posted called for a listing that is already posted leaves
\* exactly one record for it and the records of the other listings as they were.
C15_OnePostPerListing ==
    /\ [](\A p, q \in posts : p.listing_id = q.listing_id => p = q)
    /\ [][MarkKeepsOnePost]_vars

\* the sweep sent a listing to channel 2 and recorded that; mark_review_posted
\* was then called for it with channel 1, and that is its one record
C15_Witness ==
    /\ ret.op = "posted"
    /\ ~ ret.raised
    /\ sends.op = "sweep"
    /\ \E m \in sends.msgs :
          /\ m.channel_id = 2
          /\ PostsOf(posts, m.listing_id)
                = {[listing_id |-> m.listing_id, channel_id |-> 1, message_id |-> 7]}

(***************************************************************************)
(* Review and publishing handlers of cogs/admin.py (specification          *)
(* SpecFlow): /post_listings and its SingleListingReviewer view, the       *)
(* moderation cards of _announce_new_pending with their                    *)
(* ListingModerationView, and the rule sweep.  Each handler is one step;   *)
(* chan tells what the Discord channels do during it.                      *)
(***************************************************************************)
AnnounceLimit == 10

notFlow == <<listings, seq, ret, pipeVars, ruleVars, verified, alertVars, matchVars, callVars>>

\* AdminCog._load_rejected_links: SELECT link FROM rejects
load_rejected_links(rjs) == { r.link : r \in { x \in rjs : Str(x.link) # <<>> } }

\* the items loop of post_listings
RECURSIVE ReviewItems(_, _, _)
ReviewItems(rows, rejected_links, seen) ==
    IF rows = <<>> THEN <<>>
    ELSE LET d == row_to_display(Head(rows))
             key == <<d.site, d.link>>
         IN  IF d.link = <<>> \/ d.link \in rejected_links \/ key \in seen
             THEN ReviewItems(Tail(rows), rejected_links, seen)
             ELSE <<d>> \o ReviewItems(Tail(rows), rejected_links, seen \cup {key})

post_listings ==
    \E chan \in ChannelEnvs :
    LET cid == verified
        rows == get_pending_reviews(listings, posts, rejects)
        items == ReviewItems(rows, load_rejected_links(rejects), {})
    IN  /\ session' = IF cid = 0 \/ chan[cid] = "missing" \/ rows = <<>> \/ items = <<>>
                      THEN session
                      ELSE [open |-> TRUE, items |-> items, index |-> 0,
                            target_channel |-> cid]
        /\ sends' = NoSends
        /\ UNCHANGED <<posts, rejects, cards, everRejected, views, announced, published, emitted, notFlow>>

\* SingleListingReviewer.current; index counts from 0
HasCurrent(v) == 0 <= v.index /\ v.index < Len(v.items)
current(v) == v.items[v.index + 1]

\* self.items.pop(self.index) and the index adjustment after it
Pop(v) ==
    LET items == SubSeq(v.items, 1, v.index) \o SubSeq(v.items, v.index + 2, Len(v.items))
    IN  [v EXCEPT !.items = items,
                  !.index = IF v.index >= Len(items)
                            THEN Max({0, Len(items) - 1})
                            ELSE v.index]

\* SingleListingReviewer.prev / next
session_prev ==
    /\ session.open
    /\ session' = [session EXCEPT !.index = IF @ > 0 THEN @ - 1 ELSE @]
    /\ sends' = NoSends
    /\ UNCHANGED <<posts, rejects, cards, everRejected, views, announced, published, emitted, notFlow>>

session_next ==
    /\ session.open
    /\ session' = [session EXCEPT !.index = IF @ < Len(session.items) - 1 THEN @ + 1 ELSE @]
    /\ sends' = NoSends
    /\ UNCHANGED <<posts, rejects, cards, everRejected, views, announced, published, emitted, notFlow>>

\* SingleListingReviewer.reject
session_reject ==
    /\ session.open
    /\ IF HasCurrent(session)
       THEN /\ rejects' = RejectsAfterMark(listings, rejects, current(session).id)
            /\ everRejected' = everRejected
                               \cup RecordedReject(listings, current(session).id)
            /\ session' = Pop(session)
       ELSE UNCHANGED <<rejects, everRejected, session>>
    /\ sends' = NoSends
    /\ UNCHANGED <<posts, cards, views, announced, published, emitted, notFlow>>

\* SingleListingReviewer.post
session_post ==
    \E chan \in ChannelEnvs, message_id \in MsgIds :
        /\ session.open
        /\ IF HasCurrent(session) /\ chan[session.target_channel] = "text"
           THEN LET it == current(session)
                    msg == Msg(it.id, session.target_channel, 0)
                IN  /\ posts' = PostsAfterMark(listings, posts, it.id, message_id,
                                               session.target_channel).rows
                    /\ sends' = [NoSends EXCEPT !.op = "session", !.msgs = {msg}]
                    /\ published' = Publish(published, {msg})
                    /\ emitted' = [emitted EXCEPT !.posted = Publish(@, {msg})]
                    /\ session' = Pop(session)
           ELSE /\ sends' = NoSends
                /\ UNCHANGED <<posts, published, emitted, session>>
        /\ UNCHANGED <<rejects, cards, everRejected, views, announced, notFlow>>

\* the query without its LEFT JOIN posts
get_unannounced_without_posts(ls, ps, rjs, cs) ==
    get_pending_reviews({ l \in ls : ~ \E c \in cs : c.listing_id = l.id }, {}, rjs)

\* LEFT JOIN moderation_cards m ON m.listing_id = l.id ... m.listing_id IS NULL
get_unannounced_pending_for_mod(ls, ps, rjs, cs) ==
    get_pending_reviews({ l \in ls : ~ \E c \in cs : c.listing_id = l.id }, ps, rjs)

\* new_items of _announce_new_pending
RECURSIVE NewItems(_, _)
NewItems(rows, links) ==
    IF rows = <<>> THEN <<>>
    ELSE LET it == row_to_display(Head(rows))
         IN  IF it.link # <<>> /\ it.link \in links
             THEN NewItems(Tail(rows), links)
             ELSE <<it>> \o NewItems(Tail(rows), links)

\* AdminCog._announce_new_pending; mod is what the moderation channel does
announce_new_pending ==
    \E mod \in {"text", "missing", "failing"}, message_id \in MsgIds :
    LET rows == get_unannounced_pending_for_mod(listings, posts, rejects, cards)
        new_items == NewItems(rows, announced)
        shown == SubSeq(new_items, 1, IF Len(new_items) < AnnounceLimit
                                      THEN Len(new_items) ELSE AnnounceLimit)
        items == IF mod = "text" THEN Range(shown) ELSE {}
    IN  /\ views' = views \cup items
        /\ cards' = cards \cup { [listing_id |-> it.id, channel_id |-> 0,
                                  message_id |-> message_id] : it \in items }
        /\ announced' = announced \cup { it.link : it \in { x \in items : x.link # <<>> } }
        /\ emitted' = [emitted EXCEPT !.moderation = Publish(@, { [listing_id |-> it.id] : it \in items })]
        /\ sends' = NoSends
        /\ UNCHANGED <<posts, rejects, everRejected, session, published, notFlow>>

\* ListingModerationView.approve on the card v
view_approve ==
    \E v \in views, chan \in ChannelEnvs, message_id \in MsgIds :
        /\ IF verified # 0 /\ chan[verified] = "text"
           THEN LET msg == Msg(v.id, verified, 0)
                IN  /\ cards' = CardsAfterClear(cards, v.id)
                    /\ posts' = PostsAfterMark(listings, posts, v.id, message_id, verified).rows
                    /\ sends' = [NoSends EXCEPT !.op = "card", !.msgs = {msg}]
                    /\ published' = Publish(published, {msg})
                    /\ emitted' = [emitted EXCEPT !.posted = Publish(@, {msg})]
                    /\ views' = views \ {v}
           ELSE /\ sends' = NoSends
                /\ UNCHANGED <<cards, posts, published, emitted, views>>
        /\ UNCHANGED <<rejects, everRejected, session, announced, notFlow>>

\* ListingModerationView.reject on the card v
view_reject ==
    \E v \in views :
        /\ cards' = CardsAfterClear(cards, v.id)
        /\ rejects' = RejectsAfterMark(listings, rejects, v.id)
        /\ everRejected' = everRejected \cup RecordedReject(listings, v.id)
        /\ views' = views \ {v}
        /\ sends' = NoSends
        /\ UNCHANGED <<posts, session, announced, published, emitted, notFlow>>

NextFlow ==
    \/ Ingest
    \/ add_rule
    \/ auto_post_rules
    \/ post_listings
    \/ session_prev
    \/ session_next
    \/ session_reject
    \/ session_post
    \/ announce_new_pending
    \/ view_approve
    \/ view_reject

SpecFlow == InitPublish /\ [][NextFlow]_vars

\* C3: no listing is sent to a public channel more than once, whatever the
\* order of rule sweeps, reviewer-session posts and moderation-card approvals.
C3_PublishedAtMostOnce == \A id \in DOMAIN published : published[id] <= 1

(***************************************************************************)
(* Saved searches (cogs/saved_searches.py): SavedSearchCog._match.         *)
(***************************************************************************)
\* mutant: remote_only is not looked at
RemoteOnlyIgnored(p, loc) == FALSE

\* the tests of _match after which it returns False
KeywordsFail(p, title, desc) ==
    /\ Str(p.q) # <<>>
    /\ LET terms == Split(p.q, <<>>)
       IN  ~ \A i \in 1..Len(terms) :
                 \/ Contains(Lower(Strip(terms[i])), title)
                 \/ Contains(Lower(Strip(terms[i])), desc)

MinAmountFails(p, payout) ==
    /\ p.min_amount # NoAmount
    /\ LET amt == extract_amount_val(payout)
       IN  ~ (amt # NoAmount /\ amt >= p.min_amount)

LocationFails(p, loc) ==
    LET loc_q == Strip(Lower(Str(p.location)))
    IN  /\ loc_q # <<>>
        /\ IF loc_q \in RemoteTerms THEN ~ AnyRemoteTerm(loc) ELSE ~ Contains(loc_q, loc)

MethodFails(p, method) == Str(p.method) # <<>> /\ ~ Contains(Lower(p.method), method)

SiteFails(p, site) == Str(p.site) # <<>> /\ ~ Contains(Lower(p.site), site)

RemoteOnlyFails(p, loc) == p.remote_only # 0 /\ ~ AnyRemoteTerm(loc)

\* SavedSearchCog._match(data, params)
match(d, p) ==
    LET title == Lower(Str(d.title))
        desc == Lower(Str(d.description))
        loc == Lower(Str(d.location))
        site == Lower(Str(d.site))
        method == Lower(Str(d.method))
    IN  IF KeywordsFail(p, title, desc) THEN FALSE
        ELSE IF MinAmountFails(p, Str(d.payout)) THEN FALSE
        ELSE IF LocationFails(p, loc) THEN FALSE
        ELSE IF MethodFails(p, method) THEN FALSE
        ELSE IF SiteFails(p, site) THEN FALSE
        ELSE IF RemoteOnlyFails(p, loc) THEN FALSE
        ELSE TRUE

(***************************************************************************)
(* _match on its own (specification SpecMatch): a listing and a saved      *)
(* search are given and _match is called on them.                          *)
(***************************************************************************)
ExampleListing ==
    Display(1, <<"a">>, <<"x">>, <<"F", "o", "c", "u", "s">>, <<"$", "1", "0", "0">>,
            <<"N", "e", "w", " ", "Y", "o", "r", "k">>, <<>>, <<>>)

MatchListings ==
    { ExampleListing,
      Display(2, <<"a", "b">>, <<"y">>, <<"p", "a", "n", "e", "l">>,
              <<"$", "5", "0", " ", "-", " ", "$", "1", ",", "0", "0", "0", ".", "5", "0">>,
              RemoteLoc, <<"o", "n", "l", "i", "n", "e">>, <<"F", "o", "c", "u", "s">>),
      Display(3, <<"b">>, <<"z">>, Untitled, <<>>, <<>>, <<>>, <<>>),
      Display(4, <<"b">>, <<"w">>, <<"p", "a", "n", "e", "l">>, <<"$", "2", "5">>,
              <<"n", "a", "t", "i", "o", "n", "w", "i", "d", "e">>,
              <<"z", "o", "o", "m">>, <<>>) }

ExampleSearch == Search(None, 50, None, None, None, 1)

MatchSearches ==
    {ExampleSearch} \cup
    { Search(q, min_amount, location, method, site, remote_only) :
        q \in {None, <<"f", "o", "c", "u", "s", " ", "F">>},
        min_amount \in {NoAmount, 50},
        location \in {None, <<"Y", "o", "r", "k">>, <<"R", "e", "m", "o", "t", "e", " ">>},
        method \in {None, <<"O", "N">>},
        site \in {None, <<"A">>},
        remote_only \in {0, 1} }

InitMatch ==
    /\ CoreInit
    /\ verified = 1
    /\ data \in MatchListings
    /\ params \in MatchSearches
    /\ matched = NotMatched
    /\ NoCall

Match ==
    /\ ~ matched.called
    /\ matched' = [called |-> TRUE, result |-> match(data, params)]
    /\ UNCHANGED <<storeVars, histVars, pipeVars, ruleVars, verified, flowVars, pubVars,
                   alertVars, data, params, callVars>>

SpecMatch == InitMatch /\ [][Match]_vars

\* what each filter of a saved search asks of a listing, when it is configured
KeywordsPass(d, p) ==
    \A w \in Range(Split(Str(p.q), <<>>)) :
        \/ Contains(Lower(w), Lower(Str(d.title)))
        \/ Contains(Lower(w), Lower(Str(d.description)))

MinAmountPasses(d, p) ==
    p.min_amount # NoAmount =>
        /\ extract_amount_val(Str(d.payout)) # NoAmount
        /\ extract_amount_val(Str(d.payout)) >= p.min_amount

LocationPasses(d, p) ==
    LET want == Strip(Lower(Str(p.location)))
    IN  want # <<>> =>
            IF want \in RemoteTerms
            THEN AnyRemoteTerm(Lower(Str(d.location)))
            ELSE Contains(want, Lower(Str(d.location)))

MethodPasses(d, p) ==
    Str(p.method) # <<>> => Contains(Lower(p.method), Lower(Str(d.method)))

SitePasses(d, p) ==
    Str(p.site) # <<>> => Contains(Lower(p.site), Lower(Str(d.site)))

RemoteOnlyPasses(d, p) == p.remote_only # 0 => AnyRemoteTerm(Lower(Str(d.location)))

AllFiltersPass(d, p) ==
    /\ KeywordsPass(d, p)
    /\ MinAmountPasses(d, p)
    /\ LocationPasses(d, p)
    /\ MethodPasses(d, p)
    /\ SitePasses(d, p)
    /\ RemoteOnlyPasses(d, p)

\* C8: _match returns True only if every configured filter of the saved search
\* (keywords, min_amount, location, method, site, remote_only) passes; the
\* search min_amount=50 with remote_only does not match the listing with
\* payout $100 and location New York.
C8_MatchIsConjunction ==
    matched.called =>
        /\ matched.result => AllFiltersPass(data, params)
        /\ (params = ExampleSearch /\ data = ExampleListing) => ~ matched.result

\* _match was called on the example: min_amount passes, remote_only does not
C8_Witness ==
    /\ matched.called
    /\ params = ExampleSearch
    /\ data = ExampleListing
    /\ MinAmountPasses(data, params)
    /\ ~ matched.result

(***************************************************************************)
(* Saved-search alerts (specification SpecAlert): /save_search,            *)
(* /delete_search and the listing_posted listener                          *)
(* SavedSearchCog.on_listing_posted.                                       *)
(***************************************************************************)
SearchRow(id, user_id, name, p) ==
    [id |-> id, user_id |-> user_id, name |-> name, q |-> p.q,
     min_amount |-> p.min_amount, location |-> p.location, method |-> p.method,
     site |-> p.site, remote_only |-> IF p.remote_only # 0 THEN 1 ELSE 0,
     enabled |-> 1]

notAlert == <<storeVars, histVars, pipeVars, ruleVars, verified, flowVars, pubVars, matchVars, callVars>>

\* the filters /save_search is given
SearchInputs ==
    { Search(None, 100, None, None, None, 0),
      Search(None, NoAmount, <<"N", "Y">>, None, None, 0) }

\* mutant: a plain INSERT into a table without UNIQUE(user_id, name)
add_saved_search_appends ==
    /\ searchSeq < MaxSearches
    /\ \E user_id \in Users, name \in {"n", "m"}, p \in SearchInputs :
         searches' = searches \cup {SearchRow(searchSeq + 1, user_id, name, p)}
    /\ searchSeq' = searchSeq + 1
    /\ alerts' = NoAlerts
    /\ UNCHANGED notAlert

\* /save_search and DB.add_saved_search: INSERT OR REPLACE, UNIQUE(user_id,
\* name), enabled = 1
add_saved_search ==
    /\ searchSeq < MaxSearches
    /\ \E user_id \in Users, name \in {"n", "m"}, p \in SearchInputs :
         searches' = { r \in searches : ~ (r.user_id = user_id /\ r.name = name) }
                     \cup {SearchRow(searchSeq + 1, user_id, name, p)}
    /\ searchSeq' = searchSeq + 1
    /\ alerts' = NoAlerts
    /\ UNCHANGED notAlert

\* /delete_search and DB.delete_saved_search
delete_saved_search ==
    /\ \E user_id \in Users, search_id \in 1..MaxSearches :
         searches' = { r \in searches : ~ (r.user_id = user_id /\ r.id = search_id) }
    /\ alerts' = NoAlerts
    /\ UNCHANGED <<searchSeq, notAlert>>

RECURSIVE OrderByRowid(_)
OrderByRowid(rs) ==
    IF rs = {} THEN <<>>
    ELSE LET low == CHOOSE r \in rs : \A q \in rs : r.id <= q.id
         IN  <<low>> \o OrderByRowid(rs \ {low})

\* DB.iter_saved_searches: SELECT * FROM saved_searches WHERE enabled=1, which
\* SQLite answers by a scan of the table in rowid order
iter_saved_searches(st) == OrderByRowid({ r \in st : r.enabled = 1 })

\* for s in searches: ... of on_listing_posted.  tried: the searches user.send
\* was called for; sent: those it delivered; raised: the listener ended in an
\* exception
RECURSIVE FanOut(_, _, _, _, _)
FanOut(ss, listing, resolve, deliver, acc) ==
    IF ss = <<>> THEN acc
    ELSE LET s == Head(ss)
         IN  IF ~ match(listing, s)
             THEN FanOut(Tail(ss), listing, resolve, deliver, acc)
             ELSE IF resolve[s.user_id] = "error"
                  THEN [acc EXCEPT !.raised = TRUE]
                  ELSE FanOut(Tail(ss), listing, resolve, deliver,
                              [acc EXCEPT
                                 !.tried = Append(@, s.id),
                                 !.sent = IF deliver[s.user_id] = "ok"
                                          THEN Append(@, s.id) ELSE @])

\* the listings a listing_posted event carries
PostedListings ==
    { Display(1, <<"a">>, <<"x">>, <<"t">>, P150, RemoteLoc, <<>>, <<>>),
      Display(2, <<"a">>, <<"y">>, <<"t">>, <<>>, NY, <<>>, <<>>) }

\* resolve: bot.get_user(id) or (await bot.fetch_user(id)) gives a user, or
\* fetch_user raises; deliver: user.send delivers, or raises (caught and logged)
on_listing_posted ==
    \E listing \in PostedListings, resolve \in [Users -> {"found", "error"}], deliver \in [Users -> {"ok", "refused"}] :
        /\ alerts' = FanOut(iter_saved_searches(searches), listing, resolve, deliver,
                            [NoAlerts EXCEPT !.op = "posted", !.listing = listing,
                                             !.resolve = resolve, !.deliver = deliver])
        /\ UNCHANGED <<searches, searchSeq, notAlert>>

NextAlert == add_saved_search \/ delete_saved_search \/ on_listing_posted

SpecAlert == Init /\ [][NextAlert]_vars

\* how often x occurs in the sequence s
Count(s, x) == Cardinality({ i \in 1..Len(s) : s[i] = x })

\* C9: after a listing_posted event every enabled saved search that matches
\* the listing has had exactly one direct message sent to its owner (when the
\* owner can be found), and every other saved search none.
C9_OneAlertPerMatch ==
    alerts.op = "posted" =>
        \A s \in searches :
            Count(alerts.tried, s.id) =
                IF /\ s.enabled = 1
                   /\ match(alerts.listing, s)
                   /\ alerts.resolve[s.user_id] = "found"
                THEN 1 ELSE 0

\* C10: after a listing_posted event every enabled matching saved search whose
\* owner can be found and accepts direct messages has received its alert,
\* whatever happened for the owners of the other saved searches.
C10_FailuresIsolated ==
    alerts.op = "posted" =>
        \A s \in searches :
            ( /\ s.enabled = 1
              /\ match(alerts.listing, s)
              /\ alerts.resolve[s.user_id] = "found"
              /\ alerts.deliver[s.user_id] = "ok" ) =>
                \E i \in 1..Len(alerts.sent) : alerts.sent[i] = s.id

(***************************************************************************)
(* The store on a database file that holds a rule and a saved search       *)
(* (specification SpecStored): connect() keeps the rows of an existing     *)
(* file.                                                                   *)
(***************************************************************************)
InitStored ==
    /\ BaseInit
    /\ rules = {RuleRow(1, "A", [min_amount |-> 100, require_remote |-> FALSE,
                                 site_contains |-> None, method_contains |-> None,
                                 location_contains |-> None, channel_id |-> 1])}
    /\ ruleSeq = 1
    /\ searches = {SearchRow(1, 1, "n", Search(None, 100, None, None, None, 0))}
    /\ searchSeq = 1
    /\ verified = 1
    /\ MatchIdle
    /\ NoCall

NextStored ==
    \/ upsert_listings
    \/ mark_review_posted
    \/ mark_review_rejected
    \/ mark_moderation_announced
    \/ clear_listings

SpecStored == InitStored /\ [][NextStored]_vars

\* C20: clear_listings leaves the tables listings, posts, rejects and
\* moderation_cards empty and the tables saved_searches and auto_rules as they
\* were.
C20_ClearResets ==
    [][ret'.op = "clear" =>
          /\ listings' = {} /\ posts' = {} /\ rejects' = {} /\ cards' = {}
          /\ rules' = rules /\ ruleSeq' = ruleSeq
          /\ searches' = searches /\ searchSeq' = searchSeq]_vars

\* clear_listings has run on a store that held two listings; the rule and the
\* saved search are still there
C20_Witness ==
    /\ ret.op = "clear"
    /\ seq >= 2
    /\ listings = {} /\ posts = {} /\ rejects = {} /\ cards = {}
    /\ Cardinality(rules) = 1
    /\ Cardinality(searches) = 1

\* whether a listing has a post record, and whether it has a reject record
\* for its id or its (site, link)
StateOf(l, ps, rs) == <<PostMatches(l, ps) # {}, RejectMatches(l, rs) # {}>>

\* C21: upsert_listings leaves posts, rejects and moderation_cards as they
\* were, every listing stored before the call keeps its id and stays pending,
\* posted or rejected, and every listing the call inserts is pending.
C21_UpsertKeepsState ==
    [][ret'.op = "upsert" =>
          /\ posts' = posts /\ rejects' = rejects /\ cards' = cards
          /\ \A l \in listings :
                \E l2 \in listings' :
                    /\ l2.id = l.id /\ l2.site = l.site /\ l2.link = l.link
                    /\ StateOf(l2, posts', rejects') = StateOf(l, posts, rejects)
          /\ \A l2 \in listings' :
                (~ \E l \in listings : l.site = l2.site /\ l.link = l2.link) =>
                    l2 \in PendingRows(listings', posts', rejects')]_vars

\* one call has updated the payout of a posted listing and inserted a second
\* listing, with a moderation card and a reject record in the store
C21_Witness ==
    /\ ret.op = "upsert"
    /\ ret.new = 1
    /\ ret.changed = 1
    /\ cards # {}
    /\ \E l \in listings : PostMatches(l, posts) # {}
    /\ \E l \in listings : l \in Pending

(***************************************************************************)
(* Claims about the moderation cards and the publishing paths.             *)
(***************************************************************************)
\* C22: no listing that has a post record or a reject record has a
\* moderation_cards row, whichever handler posted or rejected it (the rule
\* sweep, the reviewer session or the buttons of the moderation card).
C22_NoCardOnceSettled ==
    \A l \in listings :
        (PostMatches(l, posts) # {} \/ RejectMatches(l, rejects) # {}) =>
            ~ \E c \in cards : c.listing_id = l.id

\* a call of add_saved_search leaves one search for the (user_id, name) it
\* was given, the row it wrote, and the other searches as they were
AddReplaces ==
    add_saved_search =>
        \E new \in searches' :
            /\ new \notin searches
            /\ \A r \in searches' :
                  (r.user_id = new.user_id /\ r.name = new.name) => r = new
            /\ searches' \ {new}
                 = { r \in searches : ~ (r.user_id = new.user_id /\ r.name = new.name) }

MinAutoMinutes == 1

\* int(text): blanks around the number and a sign are accepted, anything
\* else but decimal digits raises ValueError
int(s) ==
    LET t == Strip(s)
        ds == IF t # <<>> /\ Head(t) \in {"-", "+"} THEN Tail(t) ELSE t
    IN  IF ds = <<>> \/ \E i \in 1..Len(ds) : ~ IsDigit(ds[i])
        THEN [raised |-> TRUE, value |-> 0]
        ELSE [raised |-> FALSE,
              value |-> IF Head(t) = "-" THEN 0 - ParseInt(ds, 0) ELSE ParseInt(ds, 0)]

\* str(n) of a natural number
RECURSIVE str(_)
str(n) == IF n < 10 THEN <<Digits[n + 1]>> ELSE str(n \div 10) \o <<Digits[(n % 10) + 1]>>

\* SCRAPE_SECONDS = int(os.getenv("SCRAPE_INTERVAL", "3600") or "3600")
SCRAPE_SECONDS(env) ==
    int(IF env = None \/ env = <<>> THEN <<"3", "6", "0", "0">> ELSE env)

\* AUTO_MINUTES = int(os.getenv("AUTO_SCRAPE_MINUTES", str(max(1, SCRAPE_SECONDS // 60))))
AUTO_MINUTES(env, seconds) ==
    int(IF env = None THEN str(Max({MinAutoMinutes, seconds \div 60})) ELSE env)

\* the seconds between two ticks once cog_load has run.  A ValueError at
\* import leaves the cog unloaded and no loop running.  An exception of
\* change_interval is swallowed and the 3600 seconds of @tasks.loop stay: it
\* raises ValueError for a negative interval, and for an interval of zero it
\* either does (lib = "raised") or takes it (lib = "accepted")
loop_interval(interval_env, minutes_env, lib) ==
    LET s == SCRAPE_SECONDS(interval_env)
        m == AUTO_MINUTES(minutes_env, s.value)
        asked == IF s.value > 0 THEN s.value ELSE m.value * 60
    IN  IF s.raised \/ m.raised THEN [running |-> FALSE, seconds |-> 0]
        ELSE [running |-> TRUE,
              seconds |-> IF asked > 0 \/ (asked = 0 /\ lib = "accepted")
                          THEN asked ELSE 3600]

\* values of SCRAPE_INTERVAL and of AUTO_SCRAPE_MINUTES
IntervalEnvs ==
    { None, <<>>, <<"0">>, <<"1">>, <<"5", "9">>, <<"6", "0">>, <<"9", "0">>,
      <<"-", "1">>, <<" ", "3", "0", " ">>, <<"1", "h">> }
MinutesEnvs ==
    { None, <<>>, <<"0">>, <<"1">>, <<"2">>, <<"-", "1">>, <<"+", "3">>,
      <<"1", "0">>, <<"m">>, <<"6", "0">> }

\* the process starts with one environment and loads the cog
cog_load ==
    \E interval_env \in IntervalEnvs, minutes_env \in MinutesEnvs, lib \in {"accepted", "raised"} :
        /\ ~ applied.called
        /\ args' = <<interval_env, minutes_env, lib>>
        /\ applied' = [called |-> TRUE,
                       value |-> loop_interval(interval_env, minutes_env, lib)]
        /\ UNCHANGED <<storeVars, histVars, pipeVars, ruleVars, verified, flowVars,
                       pubVars, alertVars, matchVars, procVars>>

SpecInterval == Init /\ [][cog_load]_vars

\* C24: whatever interval is configured, the interval the scheduled
\* ingestion tick uses is at least the floor: a configured value below the
\* floor is raised to it.
C24_IntervalAtLeastFloor ==
    (applied.called /\ applied.value.running) =>
        applied.value.seconds >= MinAutoMinutes * 60

sweep_step ==
    \E chan \in ChannelEnvs, message_id \in MsgIds :
        /\ IF tasks["sweep"].items = <<>>
           THEN LET rs == list_rules(rules, TRUE)
                    rows == IF rs = <<>> THEN <<>>
                            ELSE get_pending_reviews(listings, posts, rejects)
                IN  /\ tasks' = [tasks EXCEPT !["sweep"] =
                                    IF rows = <<>> THEN @ ELSE [rules |-> rs, items |-> rows]]
                    /\ sends' = NoSends
                    /\ UNCHANGED <<posts, published, emitted>>
           ELSE LET t == tasks["sweep"]
                    res == SweepRow(Head(t.items), t.rules, verified, chan, message_id,
                                    listings, SweepAcc(posts))
                IN  /\ posts' = res.posts
                    /\ sends' = [op |-> "sweep", msgs |-> res.msgs, failed |-> res.failed]
                    /\ published' = Publish(published, res.msgs)
                    /\ emitted' = [emitted EXCEPT !.posted = Publish(@, res.events)]
                    /\ tasks' = [tasks EXCEPT !["sweep"] =
                                    IF Tail(t.items) = <<>> THEN [rules |-> <<>>, items |-> <<>>]
                                    ELSE [t EXCEPT !.items = Tail(@)]]
        /\ UNCHANGED <<listings, seq, rejects, cards, histVars, pipeVars, ruleVars, verified,
                       flowVars, alertVars, matchVars, args, applied, bot, tick>>

\* AdminCog._announce_new_pending run as the coroutine t; mod is what the
\* moderation channel does during the step
announce_step(t) ==
    \E mod \in {"text", "missing", "failing"}, message_id \in MsgIds :
        /\ IF tasks[t].items = <<>>
           THEN LET rows == get_unannounced_pending_for_mod(listings, posts, rejects, cards)
                    new_items == NewItems(rows, announced)
                    shown == SubSeq(new_items, 1, IF Len(new_items) < AnnounceLimit
                                                  THEN Len(new_items) ELSE AnnounceLimit)
                IN  /\ tasks' = [tasks EXCEPT ![t].items = IF mod = "missing" THEN @ ELSE shown]
                    /\ UNCHANGED <<cards, views, announced, emitted>>
           ELSE LET it == Head(tasks[t].items)
                IN  /\ tasks' = [tasks EXCEPT ![t].items = Tail(@)]
                    /\ IF mod = "text"
                       THEN /\ views' = views \cup {it}
                            /\ cards' = CardsAfterAnnounce(listings, cards, it.id, 0,
                                                           message_id).rows
                            /\ announced' = announced
                                            \cup (IF it.link # <<>> THEN {it.link} ELSE {})
                            /\ emitted' = [emitted EXCEPT !.moderation[it.id] = @ + 1]
                       ELSE UNCHANGED <<cards, views, announced, emitted>>
        /\ sends' = NoSends
        /\ UNCHANGED <<posts, rejects, everRejected, session, published, listings, seq, ret,
                       pipeVars, ruleVars, verified, alertVars, matchVars, args, applied, bot, tick>>

NextTasks ==
    \/ Ingest
    \/ sweep_step
    \/ announce_step("command")
    \/ announce_step("tick")
    \/ view_approve
    \/ view_reject

SpecTasks == InitStored /\ [][NextTasks]_vars

\* C23: no listing gets more than one moderation message, whatever the
\* announcement sweeps that run, one after the other or two at a time (the
\* task of /scrape or /rescrape and the call of the scheduled tick).
C23_AnnouncedAtMostOnce == \A id \in DOMAIN emitted.moderation : emitted.moderation[id] <= 1

\* C27: the rule sweep publishes no listing whose (site, link) has a reject
\* record, also when the reject is recorded after the sweep has read its
\* pending rows.
C27_RejectedNeverSwept ==
    [][(sweep_step /\ sends'.op = "sweep") =>
          \A m \in sends'.msgs :
              ~ \E l \in listings : l.id = m.listing_id /\ RejectMatches(l, rejects) # {}]_vars

(***************************************************************************)
(* The rule sweep beside /rescrape (specification SpecSweep): the steps of *)
(* _auto_post_rules, clear_listings and the next scrape, and the           *)
(* moderation cards.                                                       *)
(***************************************************************************)
NextSweep ==
    \/ Ingest
    \/ clear_listings
    \/ sweep_step
    \/ announce_new_pending
    \/ view_approve
    \/ view_reject

SpecSweep == InitStored /\ [][NextSweep]_vars

\* C26: every send of a listing to a public channel that succeeds (by the
\* rule sweep, the reviewer session or the approve button of a card) comes
\* with a listing_posted event for that listing, whether mark_review_posted
\* succeeds or raises.
C26_PublishEmitsEvent ==
    [][\A id \in DOMAIN published :
          published'[id] > published[id] => emitted'.posted[id] > emitted.posted[id]]_vars

(***************************************************************************)
(* The start of the process (specification SpecBoot): the bot as           *)
(* ClickCartelBot.__init__ leaves it (db is a DB object, or None when its  *)
(* construction failed), setup_hook, and then calls of the store.          *)
(***************************************************************************)
\* ClickCartelBot.setup_hook: DB.connect opens the store or raises; the
\* exception is logged, the cogs are loaded and the bot runs
setup_hook ==
    /\ bot.state = "constructed"
    /\ \E outcome \in {"ok", "raised"} :
          bot' = IF bot.db
                 THEN [bot EXCEPT !.conn = (outcome = "ok"), !.connect = outcome,
                                  !.state = "running"]
                 ELSE [bot EXCEPT !.state = "running"]
    /\ UNCHANGED <<storeVars, histVars, pipeVars, ruleVars, verified, flowVars, pubVars,
                   alertVars, matchVars, args, applied, tasks, tick>>

\* a handler of the running bot calls the store: each method of DB starts
\* with assert self.conn is not None
store_call ==
    /\ bot.state = "running"
    /\ bot.db
    /\ IF bot.conn
       THEN upsert_listings \/ mark_review_posted \/ mark_review_rejected
       ELSE /\ ret' = [Ret("assert") EXCEPT !.raised = TRUE]
            /\ UNCHANGED <<storeVars, everRejected, notStore>>

NextBoot == setup_hook \/ store_call

\* a new database file; __init__ has made the DB object, or has not
InitBoot ==
    /\ CoreInit
    /\ verified = 1
    /\ MatchIdle
    /\ args = <<>>
    /\ applied = NotCalled
    /\ tasks = [t \in {"sweep", "command", "tick"} |-> [rules |-> <<>>, items |-> <<>>]]
    /\ bot \in [db : BOOLEAN, conn : {FALSE}, connect : {"none"}, state : {"constructed"}]
    /\ tick = NoTick

SpecBoot == InitBoot /\ [][NextBoot]_vars

\* C28: when DB.connect raises at the start, the start ends in that error and
\* the bot does not go on to run with a store that is not connected.
C28_ConnectFailureFatal == bot.connect = "raised" => bot.state = "failed"

(***************************************************************************)
(* The scheduled tick (specification SpecTick): the body of                *)
(* AdminCog.autoscrape_loop, one action per try statement, with /scrape    *)
(* and the buttons of the moderation cards between its steps.  The store   *)
(* holds one rule, as in InitStored.  Whether discord.ext.tasks runs the   *)
(* body again after it raised is the library's: the model takes both.      *)
(***************************************************************************)
\* what the alert channel does: ALERT_CHANNEL_ID is 0, or get_channel gives a
\* text channel whose send succeeds or raises, or something else
AlertEnvs == {"unset", "text", "failing", "missing"}

\* try: await self.bot.perform_scrape(trigger="auto") except Exception: log,
\* and send to the alert channel (a send that is inside no try)
tick_scrape ==
    /\ tick.pc = "idle"
    /\ \E outcome \in {"ok", "raised"}, alert \in AlertEnvs, again \in BOOLEAN :
         /\ IF outcome = "ok"
            THEN \E it \in PublishItems :
                 \E res \in {upsert_result(listings, seq, posts, rejects, <<it>>)} :
                    /\ res.seq <= MaxId
                    /\ listings' = res.listings
                    /\ seq' = res.seq
            ELSE UNCHANGED <<listings, seq>>
         /\ tick' = IF outcome = "raised" /\ alert = "failing"
                    THEN [NoTick EXCEPT !.pc = IF again THEN "idle" ELSE "stopped",
                                        !.scrape = "raised", !.ran = {"scrape"},
                                        !.end = "raised"]
                    ELSE [NoTick EXCEPT !.pc = "sweep", !.scrape = outcome,
                                        !.ran = {"scrape"}]
    /\ sends' = NoSends
    /\ UNCHANGED <<posts, rejects, cards, histVars, pipeVars, ruleVars, verified, flowVars,
                   published, emitted, alertVars, matchVars, args, applied, tasks, bot>>

\* try: await self._auto_post_rules() except Exception: log
tick_sweep ==
    /\ tick.pc = "sweep"
    /\ \E chan \in ChannelEnvs, message_id \in MsgIds :
       \E res \in {sweep_result(rules, listings, posts, rejects, verified, chan, message_id)} :
          /\ posts' = res.posts
          /\ sends' = [op |-> "sweep", msgs |-> res.msgs, failed |-> res.failed]
          /\ published' = Publish(published, res.msgs)
          /\ emitted' = [emitted EXCEPT !.posted = Publish(@, res.events)]
          /\ tick' = [tick EXCEPT !.pc = "announce", !.ran = @ \cup {"sweep"},
                                  !.posted = { q.listing_id : q \in res.posts \ posts }]
    /\ UNCHANGED <<listings, seq, rejects, cards, histVars, pipeVars, ruleVars, verified,
                   flowVars, alertVars, matchVars, args, applied, tasks, bot>>

\* try: await self._announce_new_pending() except Exception: log
tick_announce ==
    /\ tick.pc = "announce"
    /\ \E mod \in {"text", "missing", "failing"}, message_id \in MsgIds :
       LET rows == get_unannounced_pending_for_mod(listings, posts, rejects, cards)
           new_items == NewItems(rows, announced)
           shown == SubSeq(new_items, 1, IF Len(new_items) < AnnounceLimit
                                         THEN Len(new_items) ELSE AnnounceLimit)
           items == IF mod = "text" THEN Range(shown) ELSE {}
       IN  /\ views' = views \cup items
           /\ cards' = cards \cup { [listing_id |-> it.id, channel_id |-> 0,
                                     message_id |-> message_id] : it \in items }
           /\ announced' = announced \cup { it.link : it \in { x \in items : x.link # <<>> } }
           /\ emitted' = [emitted EXCEPT !.moderation =
                              Publish(@, { [listing_id |-> it.id] : it \in items })]
           /\ tick' = [tick EXCEPT !.pc = "idle", !.ran = @ \cup {"announce"},
                                   !.end = "returned",
                                   !.carded = { it.id : it \in items }]
    /\ sends' = NoSends
    /\ UNCHANGED <<listings, seq, posts, rejects, histVars, session, published, pipeVars,
                   ruleVars, verified, alertVars, matchVars, args, applied, tasks, bot>>

NextTick ==
    \/ tick_scrape
    \/ tick_sweep
    \/ tick_announce
    \/ Ingest
    \/ clear_listings
    \/ view_approve
    \/ view_reject

SpecTick == InitStored /\ [][NextTick]_vars

\* C31: when the ingestion of a scheduled tick fails, the body still runs
\* the rule sweep and the announcement sweep of that tick, and it does not
\* end in an exception (which is what lets the scheduler fire later ticks).
C31_FailedIngestionKeepsTick ==
    (tick.scrape = "raised" /\ tick.pc \in {"idle", "stopped"}) =>
        /\ {"sweep", "announce"} \subseteq tick.ran
        /\ tick.end = "returned"

\* C40: the body runs ingestion, then the rule sweep, then the announcement
\* sweep, and no listing that the rule sweep of a tick recorded as posted
\* gets a moderation message from the announcement sweep of that tick.
C40_SweepBeforeAnnounce ==
    /\ ("announce" \in tick.ran => "sweep" \in tick.ran)
    /\ ("sweep" \in tick.ran => "scrape" \in tick.ran)
    /\ tick.posted \cap tick.carded = {}

\* a tick auto-posted one listing and gave another one a moderation message
C40_Witness ==
    /\ tick.end = "returned"
    /\ tick.posted # {}
    /\ tick.carded # {}

(***************************************************************************)
(* upsert_listings that stops inside its loop (specification SpecPartial). *)
(* Each row is written by one UPDATE or INSERT statement and the commit    *)
(* comes after the loop: when a statement raises, the rows written so far  *)
(* stay in the open transaction of the shared connection, which every      *)
(* later call reads and the next commit keeps; when the process dies,      *)
(* SQLite rolls the transaction back.                                      *)
(***************************************************************************)
PartialItems ==
    { Item(<<"a">>, <<"x">>, P50, NY),
      Item(<<"a">>, <<"x">>, P150, RemoteLoc),
      Item(<<"a">>, <<"y">>, P50, None) }

PartialBatches == UNION { [1..k -> PartialItems] : k \in 1..MaxBatch }

\* upsert_listings(batch) stops after k rows of the batch
upsert_stops ==
    \E batch \in PartialBatches, how \in {"error", "crash"} :
    \E k \in 0..(Len(batch) - 1) :
    \E res \in {UpsertLoop(listings, seq, SubSeq(batch, 1, k), 0)} :
        /\ upsert_result(listings, seq, posts, rejects, batch).seq <= MaxId
        /\ IF how = "error"
           THEN listings' = res.listings /\ seq' = res.seq
           ELSE UNCHANGED <<listings, seq>>
        /\ ret' = [Ret("upsert_stopped") EXCEPT !.new = res.new, !.raised = TRUE]
        /\ args' = [batch |-> batch, k |-> k, how |-> how, listings |-> listings, seq |-> seq]
        /\ applied' = NotCalled
        /\ UNCHANGED <<posts, rejects, cards, everRejected, pipeVars, ruleVars, verified,
                       flowVars, pubVars, alertVars, matchVars, procVars>>

\* the same batch is given to upsert_listings again, and the call returns
upsert_rerun ==
    /\ ret.op = "upsert_stopped"
    /\ \E res \in {upsert_result(listings, seq, posts, rejects, args.batch)} :
        /\ listings' = res.listings
        /\ seq' = res.seq
        /\ ret' = [Ret("upsert_rerun") EXCEPT !.new = res.new, !.pending = res.pending,
                                              !.raised = res.raised]
        /\ applied' = [called |-> TRUE, value |-> res.new]
        /\ UNCHANGED <<posts, rejects, cards, everRejected, pipeVars, ruleVars, verified,
                       flowVars, pubVars, alertVars, matchVars, args, procVars>>

NextPartial == upsert_stops \/ upsert_rerun

SpecPartial == Init /\ [][NextPartial]_vars

\* the row with the id of r as the statement for the record it writes it
WrittenRow(r, it) == Row(r.id, Strip(Str(get_val(it, "site"))), Strip(Str(get_val(it, "link"))), it)

FetchOutcomes ==
    { ScrapeFailed,
      Scraped(<<Item(<<"a">>, <<"x">>, P50, NY)>>),
      Scraped(<<Item(<<"a">>, <<"y">>, P50, None)>>) }

\* perform_scrape awaits run_all, which awaits run_scrapers: the coroutines
\* of n adapters start; silent: the site of the adapter never answers
fetch_start ==
    /\ pc["auto"] = "idle"
    /\ \E n \in 1..MaxScrapers :
       \E silent \in [1..n -> BOOLEAN] :
          args' = [i \in 1..n |-> [state |-> "fetching", silent |-> silent[i],
                                   timed_out |-> FALSE, out |-> ScrapeFailed]]
    /\ pc' = [pc EXCEPT !["auto"] = "run_all"]
    /\ fetched' = [fetched EXCEPT !["auto"] = <<>>]
    /\ got' = [got EXCEPT !["auto"] = <<>>]
    /\ summary' = [summary EXCEPT !["auto"] = NoSummary]
    /\ UNCHANGED <<storeVars, histVars, ruleVars, verified, flowVars, pubVars, alertVars,
                   matchVars, applied, procVars>>

\* the site answers and scrape() of adapter i returns its listings or raises
fetch_responds(i) ==
    /\ pc["auto"] = "run_all"
    /\ i \in DOMAIN args
    /\ args[i].state = "fetching"
    /\ ~ args[i].silent
    /\ \E out \in FetchOutcomes : args' = [args EXCEPT ![i].state = "done", ![i].out = out]
    /\ UNCHANGED <<storeVars, histVars, pipeVars, ruleVars, verified, flowVars, pubVars,
                   alertVars, matchVars, applied, procVars>>

\* the total timeout of the session expires in the request of adapter i:
\* session.get raises asyncio.TimeoutError out of scrape()
fetch_times_out(i) ==
    /\ pc["auto"] = "run_all"
    /\ i \in DOMAIN args
    /\ args[i].state = "fetching"
    /\ args' = [args EXCEPT ![i].state = "done", ![i].timed_out = TRUE, ![i].out = ScrapeFailed]
    /\ UNCHANGED <<storeVars, histVars, pipeVars, ruleVars, verified, flowVars, pubVars,
                   alertVars, matchVars, applied, procVars>>

\* gather has every result: run_scrapers returns, and run_all after it
gather_returns ==
    /\ pc["auto"] = "run_all"
    /\ \A i \in DOMAIN args : args[i].state = "done"
    /\ \E r \in {run_all([i \in DOMAIN args |-> args[i].out])} :
          /\ fetched' = [fetched EXCEPT !["auto"] = r.results]
          /\ got' = [got EXCEPT !["auto"] = r.returned]
    /\ pc' = [pc EXCEPT !["auto"] = "upsert"]
    /\ UNCHANGED <<summary, storeVars, histVars, restVars>>

NextFetch ==
    \/ fetch_start
    \/ \E i \in 1..MaxScrapers : fetch_responds(i)
    \/ \E i \in 1..MaxScrapers : fetch_times_out(i)
    \/ gather_returns
    \/ UpsertReturns("auto")

\* the event loop runs a coroutine that can go on, and a timer that was set
\* expires
SpecFetch ==
    /\ Init
    /\ [][NextFetch]_vars
    /\ \A i \in 1..MaxScrapers : WF_vars(fetch_times_out(i))
    /\ WF_vars(gather_returns)
    /\ WF_vars(UpsertReturns("auto"))

\* every run that was started returns
RunTerminates == (pc["auto"] = "run_all") ~> (pc["auto"] = "idle")

\* what run_all handed to perform_scrape holds every listing of the adapters
\* that returned
OthersKept ==
    \A i \in DOMAIN args :
        ~ args[i].out.raised =>
            \A j \in 1..Len(args[i].out.items) :
                \E k \in 1..Len(got["auto"]) : got["auto"][k] = args[i].out.items[j]

\* C33: every pipeline run returns, and a run in which the request of an
\* adapter never got an answer and was ended by the timeout hands on the
\* listings of the other adapters.
C33_TimedOutRunReturns ==
    /\ RunTerminates
    /\ [](( /\ pc["auto"] = "upsert"
            /\ \E i \in DOMAIN args : args[i].timed_out ) => OthersKept)

(***************************************************************************)
(* Further claims about the publishing handlers (SpecFlow) and the store.  *)
(***************************************************************************)
\* C34: no listing has a post record and a reject record at once, whatever
\* the order of the reviewer session's post and reject, the approve and
\* reject buttons of the moderation cards and the rule sweep.
C34_NeverPostedAndRejected ==
    \A l \in listings : PostMatches(l, posts) = {} \/ RejectMatches(l, rejects) = {}

(***************************************************************************)
(* Two calls of upsert_listings on the shared connection (specification    *)
(* SpecRace): /scrape and the scheduled tick both reach perform_scrape,    *)
(* which takes no lock.  A call gives way at every await: after the SELECT *)
(* of a record and after its UPDATE or INSERT.                             *)
(***************************************************************************)
Callers == {"manual", "auto"}

RaceBatches ==
    { <<Item(<<"a">>, <<"x">>, P50, NY)>>,
      <<Item(<<"a">>, <<"y">>, P50, None)>>,
      <<Item(<<"a">>, <<"x">>, P150, NY), Item(<<"a">>, <<"y">>, P50, None)>>,
      <<Item(<<"a">>, <<"y">>, P50, None), Item(<<"a">>, <<"x">>, P50, NY)>> }

\* the locals of a call: where it stands, its batch, the index of the record
\* it is at, row of its SELECT (found), and the (site, link) it counted new
NoUpsert == [pc |-> "idle", batch |-> <<>>, i |-> 0, found |-> FALSE, new |-> {}]

\* perform_scrape calls upsert_listings(batch)
upsert_begin(c) ==
    /\ args[c].pc = "idle"
    /\ \E batch \in RaceBatches :
          args' = [args EXCEPT ![c] = [NoUpsert EXCEPT !.pc = "select", !.batch = batch, !.i = 1]]
    /\ UNCHANGED <<storeVars, histVars, pipeVars, ruleVars, verified, flowVars, pubVars,
                   alertVars, matchVars, applied, procVars>>

\* cur = await self.conn.execute("SELECT id ..."); row = await cur.fetchone()
upsert_select(c) ==
    /\ args[c].pc = "select"
    /\ LET k == Key(args[c].batch[args[c].i])
       IN  args' = [args EXCEPT ![c].pc = "write",
                                ![c].found = SelectBySiteLink(listings, k[1], k[2]) # {}]
    /\ UNCHANGED <<storeVars, histVars, pipeVars, ruleVars, verified, flowVars, pubVars,
                   alertVars, matchVars, applied, procVars>>

\* if row: await execute(UPDATE ...) else: await execute(INSERT ...);
\* new_count += 1.  An INSERT that breaks UNIQUE(site, link) raises
\* sqlite3.IntegrityError out of upsert_listings
upsert_write(c) ==
    /\ args[c].pc = "write"
    /\ LET a == args[c]
           it == a.batch[a.i]
           k == Key(it)
           ins == InsertListing(listings, seq, k[1], k[2], it)
           next == IF a.i = Len(a.batch) THEN "commit" ELSE "select"
       IN  IF a.found
           THEN /\ listings' = UpdateListing(listings, k[1], k[2], it)
                /\ seq' = seq
                /\ args' = [args EXCEPT ![c].pc = next, ![c].i = @ + 1]
           ELSE /\ listings' = ins.rows
                /\ seq' = ins.seq
                /\ args' = IF ins.raised
                           THEN [args EXCEPT ![c].pc = "raised"]
                           ELSE [args EXCEPT ![c].pc = next, ![c].i = @ + 1,
                                             ![c].new = @ \cup {k}]
    /\ UNCHANGED <<posts, rejects, cards, histVars, pipeVars, ruleVars, verified, flowVars,
                   pubVars, alertVars, matchVars, applied, procVars>>

\* await self.conn.commit(); the pending count; return
upsert_commit(c) ==
    /\ args[c].pc = "commit"
    /\ args' = [args EXCEPT ![c].pc = "returned"]
    /\ ret' = [Ret("upsert") EXCEPT !.new = Cardinality(args[c].new),
                                    !.pending = PendingCount(listings, posts, rejects)]
    /\ UNCHANGED <<storeVars, everRejected, pipeVars, ruleVars, verified, flowVars, pubVars,
                   alertVars, matchVars, applied, procVars>>

NextRace ==
    \E c \in Callers : upsert_begin(c) \/ upsert_select(c) \/ upsert_write(c) \/ upsert_commit(c)

\* a new database file, and no call of upsert_listings under way
InitRace ==
    /\ CoreInit
    /\ verified = 1
    /\ MatchIdle
    /\ applied = NotCalled
    /\ ProcIdle
    /\ args = [c \in Callers |-> NoUpsert]

SpecRace == InitRace /\ [][NextRace]_vars

\* the (site, link) of the records of a batch
KeysOf(batch) == { Key(batch[i]) : i \in 1..Len(batch) }

\* C35: when two calls of upsert_listings whose batches share a (site, link)
\* that was not stored interleave, neither call raises, and once both are
\* over exactly one of them has counted that listing as new.
C35_RaceCountsOnce ==
    /\ \A c \in Callers : args[c].pc # "raised"
    /\ (\A c \in Callers : args[c].pc = "returned") =>
          \A k \in KeysOf(args["manual"].batch) \cap KeysOf(args["auto"].batch) :
              Cardinality({ c \in Callers : k \in args[c].new }) = 1

(***************************************************************************)
(* Announcement sweeps that keep running (specification SpecAnnounce):     *)
(* /scrape, /rescrape's clear_listings, _announce_new_pending and the      *)
(* reject button of the cards, in one process, so that _announced_links is *)
(* never reset.  A sweep that can send a moderation message does so in the *)
(* end.                                                                    *)
(***************************************************************************)
\* a sweep whose sends succeeded, for at least one listing
announce_delivered == announce_new_pending /\ cards' # cards

NextAnnounce == Ingest \/ clear_listings \/ announce_new_pending \/ view_reject

SpecAnnounce == Init /\ [][NextAnnounce]_vars /\ WF_vars(announce_delivered)

\* the listing id is stored, pending and has no moderation card
AwaitsCard(id) ==
    \E l \in listings :
        /\ l.id = id
        /\ PostMatches(l, posts) = {}
        /\ RejectMatches(l, rejects) = {}
        /\ ~ \E c \in cards : c.listing_id = id

\* C36: every listing that is pending and has no moderation card gets its
\* moderation message from some later sweep (or stops being such a listing:
\* it is cleared), also a listing that /rescrape stored again.
C36_PendingEventuallyAnnounced ==
    \A id \in 1..MaxId : AwaitsCard(id) ~> (emitted.moderation[id] > 0 \/ ~ AwaitsCard(id))

(***************************************************************************)
(* Listing ids across /rescrape (specification SpecIds): scrapes,          *)
(* clear_listings, and the views that keep the id of a listing: the        *)
(* moderation cards and the reviewer session.                              *)
(***************************************************************************)
NextIds ==
    \/ Ingest
    \/ clear_listings
    \/ announce_new_pending
    \/ view_reject
    \/ post_listings
    \/ session_post

SpecIds == Init /\ [][NextIds]_vars

\* the listing that a view holds as it: no stored listing with the id of it
\* has another (site, link)
HoldsItsListing(it) ==
    \A l \in listings : l.id = it.id => (l.site = it.site /\ l.link = it.link)

\* C37: a listing id is never used again: every listing that is inserted,
\* also after clear_listings, gets an id above every id handed out before,
\* so the id that a moderation card or a reviewer session holds never names
\* another listing than the one it was made for.
C37_IdsNeverReused ==
    /\ [](\A l \in listings : l.id <= seq)
    /\ [][/\ seq' >= seq
          /\ \A l \in listings' : (~ \E o \in listings : o.id = l.id) => l.id > seq]_vars
    /\ [](\A v \in views : HoldsItsListing(v))
    /\ [](\A i \in 1..Len(session.items) : HoldsItsListing(session.items[i]))

\* a card holds the id of a listing that clear_listings deleted, and a
\* listing with the same (site, link) is stored again under a higher id
C37_Witness ==
    \E v \in views :
        /\ ~ \E l \in listings : l.id = v.id
        /\ \E l \in listings : l.site = v.site /\ l.link = v.link /\ l.id > v.id

(***************************************************************************)
(* Sweeps in a process whose channels are known (specification SpecBreak): *)
(* args.chan tells what get_channel gives for each channel id, for every   *)
(* sweep of the behaviour.                                                 *)
(***************************************************************************)
InitBreak ==
    /\ CoreInit
    /\ verified \in {0, 1}
    /\ MatchIdle
    /\ args \in [chan : ChannelEnvs]
    /\ applied = NotCalled
    /\ ProcIdle

\* AdminCog._auto_post_rules with the channels of args
sweep_known ==
    \E message_id \in MsgIds :
    \E res \in {sweep_result(rules, listings, posts, rejects, verified, args.chan, message_id)} :
        /\ posts' = res.posts
        /\ sends' = [op |-> "sweep", msgs |-> res.msgs, failed |-> res.failed]
        /\ published' = Publish(published, res.msgs)
        /\ emitted' = [emitted EXCEPT !.posted = Publish(@, res.events)]
        /\ applied' = [called |-> TRUE, value |-> res.msgs]
        /\ UNCHANGED <<listings, seq, rejects, cards, histVars, pipeVars, ruleVars, verified,
                       flowVars, alertVars, matchVars, args, procVars>>

NextBreak == Ingest \/ add_rule \/ sweep_known

SpecBreak == InitBreak /\ [][NextBreak]_vars

\* the destination of the first enabled rule that passes for the listing l
\* cannot be resolved: it is 0, or get_channel finds no text channel for it
FirstMatchUnresolved(l) ==
    /\ PassingRules(rules, l) # {}
    /\ LET first == CHOOSE r \in PassingRules(rules, l) :
                        \A q \in PassingRules(rules, l) : r.id <= q.id
           dest == Destination(first, verified)
       IN  dest = 0 \/ args.chan[dest] = "missing"

\* C38: a sweep sends a pending listing nowhere when the destination of its
\* first passing rule cannot be resolved, whatever later rules pass for it,
\* and the listing is pending after the sweep.
C38_UnresolvedFirstRuleStops ==
    [][sweep_known =>
          \A l \in Pending :
              FirstMatchUnresolved(l) =>
                  /\ ~ \E m \in sends'.msgs : m.listing_id = l.id
                  /\ published'[l.id] = published[l.id]
                  /\ PostsOf(posts', l.id) = {}
                  /\ l \in PendingRows(listings', posts', rejects')]_vars

\* a sweep has run; a pending listing passes two rules, the first with a
\* destination that cannot be resolved and the second with a text channel
C38_Witness ==
    /\ applied.called
    /\ \E l \in Pending :
          /\ FirstMatchUnresolved(l)
          /\ \E r \in PassingRules(rules, l) :
                /\ Destination(r, verified) # 0
                /\ args.chan[Destination(r, verified)] = "text"


(***************************************************************************)
(* The saved-search commands, with the member who calls them.              *)
(***************************************************************************)
\* no saved-search command has been called
NoCommand == [op |-> "none", user |-> 0, id |-> 0]

InitOwner ==
    /\ CoreInit
    /\ verified = 1
    /\ MatchIdle
    /\ args = NoCommand
    /\ applied = NotCalled
    /\ ProcIdle

\* mutant: DELETE FROM saved_searches WHERE id=?
DeleteSearchAnyUser(st, user_id, search_id) == { r \in st : r.id # search_id }

\* DB.delete_saved_search: DELETE FROM saved_searches WHERE user_id=? AND id=?
DeleteSearch(st, user_id, search_id) == { r \in st : ~ (r.user_id = user_id /\ r.id = search_id) }

\* DB.list_saved_searches: the rows SELECT id, name, q, ... WHERE user_id=?
\* returns, which carry no user_id column; they come ordered by created_at, a
\* time in whole seconds, and are kept here as the set of rows returned
list_saved_searches(st, user_id) ==
    { [id |-> r.id, name |-> r.name, q |-> r.q, min_amount |-> r.min_amount,
       location |-> r.location, method |-> r.method, site |-> r.site,
       remote_only |-> r.remote_only, enabled |-> r.enabled] :
      r \in { x \in st : x.user_id = user_id } }

\* /save_search by interaction.user: DB.add_saved_search(interaction.user.id,
\* name, params)
save_search ==
    /\ bot.db
    /\ searchSeq < MaxSearches
    /\ \E user_id \in Users, name \in {"n", "m"}, p \in SearchInputs :
         /\ searches' = { r \in searches : ~ (r.user_id = user_id /\ r.name = name) }
                        \cup {SearchRow(searchSeq + 1, user_id, name, p)}
         /\ args' = [op |-> "save", user |-> user_id, id |-> searchSeq + 1]
    /\ searchSeq' = searchSeq + 1
    /\ applied' = [called |-> TRUE, value |-> {}]
    /\ UNCHANGED <<storeVars, histVars, pipeVars, ruleVars, verified, flowVars, pubVars,
                   alerts, matchVars, procVars>>

\* /my_searches by interaction.user: the rows DB.list_saved_searches returned
\* for interaction.user.id
my_searches ==
    /\ bot.db
    /\ \E user_id \in Users :
         /\ args' = [op |-> "list", user |-> user_id, id |-> 0]
         /\ applied' = [called |-> TRUE, value |-> list_saved_searches(searches, user_id)]
    /\ UNCHANGED <<storeVars, histVars, pipeVars, ruleVars, verified, flowVars, pubVars,
                   alertVars, matchVars, procVars>>

\* /delete_search by interaction.user: DB.delete_saved_search(
\* interaction.user.id, search_id), whoever owns search_id
delete_search ==
    /\ bot.db
    /\ \E user_id \in Users, search_id \in 1..MaxSearches :
         /\ searches' = DeleteSearch(searches, user_id, search_id)
         /\ args' = [op |-> "delete", user |-> user_id, id |-> search_id]
    /\ applied' = [called |-> TRUE, value |-> {}]
    /\ UNCHANGED <<storeVars, histVars, pipeVars, ruleVars, verified, flowVars, pubVars,
                   searchSeq, alerts, matchVars, procVars>>

NextOwner == save_search \/ my_searches \/ delete_search

SpecOwner == InitOwner /\ [][NextOwner]_vars

\* the saved searches of the members other than user_id
OthersSearches(st, user_id) == { r \in st : r.user_id # user_id }

\* C39: a saved-search command called by a member leaves the saved searches of
\* every other member as they were; /delete_search removes nothing but the
\* caller's own search of the id given; /my_searches returns only searches the
\* caller owns.
C39_OwnSearchesOnly ==
    [][(save_search \/ my_searches \/ delete_search) =>
          /\ OthersSearches(searches', args'.user) = OthersSearches(searches, args'.user)
          /\ args'.op = "delete" =>
                 \A r \in searches \ searches' : r.user_id = args'.user /\ r.id = args'.id
          /\ args'.op = "list" =>
                 \A v \in applied'.value :
                     \E r \in searches : r.id = v.id /\ r.user_id = args'.user]_vars

\* a member asked to delete a search that another member owns, and it is
\* still stored
C39_Witness ==
    /\ args.op = "delete"
    /\ applied.called
    /\ \E r \in searches : r.id = args.id /\ r.user_id # args.user

====
